---- MODULE Spec2Model ----
(***************************************************************************)
(* Discord Rich Presence activity tracker, multi-identity variant          *)
(* (src/windows/src/index.ts, lines 699-1378): the session tracker of      *)
(* ActivityTracker and the connection manager of DiscordRPCApp.            *)
(*                                                                         *)
(* Time is counted in quarter milliseconds, so that every uncapped backoff *)
(* delay 15000 * 1.5^(n-1) ms is an integer.  Node timers are taken to run *)
(* their callback at the instant they are due; callbacks run to completion *)
(* (one action each), and an await of the transport splits a callback into *)
(* two actions.                                                            *)
(*                                                                         *)
(* Spec, SpecBackoff and SpecStop run the connection manager; SpecClassify *)
(* and SpecDuration run getCurrentActivity on a foreground window as text; *)
(* SpecSteam runs the priority loop of the single-identity variant (lines  *)
(* 1-698 of the same file).                                                *)
(***************************************************************************)
EXTENDS Integers, Sequences, FiniteSets, TLC

\* ------------------------------------------------------------------ units
Ms(x) == 4 * x

Min(a, b) == IF a <= b THEN a ELSE b

\* the null timer handle
NULL == -1

\* ------------------------------------------------------------- bounds
\* horizon of a run, in tenths of a poll period after the first instant
MaxTenths == 36
\* Client objects that can be alive at once
MaxClients == 3
\* failures the transport may produce in one run
MaxFaults == 1
\* timer instants a login may outlast before the transport settles it
MaxLatency == 1
\* largest number of earlier consecutive failures a backoff run starts from
MaxAttempts == 7

\* calls of getCurrentActivity in one run of the classifier
MaxCalls == 2
\* durations of a session sampled at each of two strides
MaxSamples == 40
\* length of a text that is longer than any payload field may be
LongLength == 130

\* ------------------------------------------------- program constants
\* defaultConfig.updateInterval (ms)
DefaultUpdateInterval == 10000
\* setTimeout(..., 3000) of switchClient (ms)
SwitchDebounce == 3000
\* now - lastSwitchTime < 15000 of switchClient (ms)
SwitchRateLimit == 15000
\* 15000 * Math.pow(1.5, n - 1) of reconnect (ms)
BackoffBase == 15000
\* Math.min(..., 120000) of reconnect (ms)
BackoffCap == 120000
\* dailyTime + 10 of trackActivityTime (s)
TrackIncrement == 10
\* MAX_RECONNECT_ATTEMPTS, which nothing reads
MaxReconnectAttempts == 5

\* ------------------------------------------------------------------- text
\* A JavaScript string is the sequence of its code units, each written as a
\* string of one character.
UpperCase == <<"A", "B", "C", "D", "E", "F", "G", "H", "I", "J", "K", "L", "M", "N", "O", "P", "Q", "R", "S", "T", "U", "V", "W", "X", "Y", "Z">>
LowerCase == <<"a", "b", "c", "d", "e", "f", "g", "h", "i", "j", "k", "l", "m", "n", "o", "p", "q", "r", "s", "t", "u", "v", "w", "x", "y", "z">>

\* the lower-case letter of each upper-case one, and the reverse
LowerOf == [c \in {UpperCase[i] : i \in DOMAIN UpperCase} |->
              LowerCase[CHOOSE i \in DOMAIN UpperCase : UpperCase[i] = c]]

UpperOf == [c \in {LowerCase[i] : i \in DOMAIN LowerCase} |->
              UpperCase[CHOOSE i \in DOMAIN LowerCase : LowerCase[i] = c]]

LowerChar(c) == IF c \in DOMAIN LowerOf THEN LowerOf[c] ELSE c

UpperChar(c) == IF c \in DOMAIN UpperOf THEN UpperOf[c] ELSE c

\* s.toLowerCase()
ToLowerCase(s) == [i \in 1 .. Len(s) |-> LowerChar(s[i])]

\* p stands in s at position k (counted from 1)
At(s, p, k) ==
  /\ k >= 1
  /\ k + Len(p) - 1 <= Len(s)
  /\ \A i \in 1 .. Len(p) : s[k + i - 1] = p[i]

\* the positions of s at which p stands
Places(s, p) == {k \in 1 .. (Len(s) - Len(p) + 1) : At(s, p, k)}

\* s.includes(p)
Includes(s, p) == \E k \in 1 .. (Len(s) - Len(p) + 1) : At(s, p, k)

\* s.substring(a, b), for 0 <= a <= b
Substring(s, a, b) == SubSeq(s, a + 1, Min(b, Len(s)))

Least(S) == CHOOSE k \in S : \A j \in S : k <= j

Greatest(S) == CHOOSE k \in S : \A j \in S : j <= k

\* s without what precedes and what follows the positions inked
Between(s, inked) ==
  IF inked = {} THEN << >> ELSE SubSeq(s, Least(inked), Greatest(inked))

\* s.trim(); the only white space of the modelled titles is the blank
Trim(s) == Between(s, {i \in 1 .. Len(s) : s[i] # " "})

\* s.charAt(0).toUpperCase() + s.slice(1)
Capitalize(s) == IF s = << >> THEN << >> ELSE <<UpperChar(s[1])>> \o Tail(s)

DecimalDigits == <<"0", "1", "2", "3", "4", "5", "6", "7", "8", "9">>

\* `${n}` of a non-negative integer
RECURSIVE NumberText(_)
NumberText(n) ==
  IF n < 10 THEN <<DecimalDigits[n + 1]>>
  ELSE NumberText(n \div 10) \o <<DecimalDigits[(n % 10) + 1]>>

\* variant: the minutes of the hour branch are the whole minutes
DurationTextWhole(seconds, minutes, hours) ==
  IF hours > 0 THEN NumberText(hours) \o <<"h", " ">> \o NumberText(minutes) \o <<"m">>
  ELSE IF minutes > 0 THEN NumberText(minutes) \o <<"m", " ">> \o NumberText(seconds % 60) \o <<"s">>
  ELSE NumberText(seconds) \o <<"s">>

\* the three branches of formatDuration
DurationText(seconds, minutes, hours) ==
  IF hours > 0 THEN NumberText(hours) \o <<"h", " ">> \o NumberText(minutes % 60) \o <<"m">>
  ELSE IF minutes > 0 THEN NumberText(minutes) \o <<"m", " ">> \o NumberText(seconds % 60) \o <<"s">>
  ELSE NumberText(seconds) \o <<"s">>

\* formatDuration(milliseconds)
FormatDuration(milliseconds) ==
  DurationText(milliseconds \div 1000, (milliseconds \div 1000) \div 60,
               ((milliseconds \div 1000) \div 60) \div 60)

\* ------------------------------------------------------------- classifier
\* An entry of priorityApps or customApps.
App(processName, type, icon, details) ==
  [processName |-> processName, type |-> type, icon |-> icon, details |-> details]

\* processName.toLowerCase().includes(token.toLowerCase()) ||
\* windowTitle.toLowerCase().includes(token.toLowerCase())
Matches(token, processName, windowTitle) ==
  \/ Includes(ToLowerCase(processName), ToLowerCase(token))
  \/ Includes(ToLowerCase(windowTitle), ToLowerCase(token))

\* the first of a set of indices, 0 if there is none
FirstOf(hits) == IF hits = {} THEN 0 ELSE Least(hits)

\* the index of the first entry of the list that matches, 0 if none does
FirstMatch(apps, processName, windowTitle) ==
  FirstOf({i \in 1 .. Len(apps) : Matches(apps[i].processName, processName, windowTitle)})

AppTypeAt(applications, i) == IF i = 0 THEN <<"d", "e", "f", "a", "u", "l", "t">> ELSE applications[i].type

\* the identity category: the first entry of config.applications one of whose
\* processNames matches
AppTypeOf(applications, processName, windowTitle) ==
  AppTypeAt(applications,
            FirstOf({i \in 1 .. Len(applications) :
                       \E j \in 1 .. Len(applications[i].processNames) :
                         Matches(applications[i].processNames[j], processName, windowTitle)}))

Dash == <<" ", "-", " ">>

\* The lazy captures: the first ends before the separator at k, the second
\* before the first ' - Spotify' that leaves it a character.
SongCut(windowTitle, k, tails) ==
  <<SubSeq(windowTitle, 1, k - 1),
    SubSeq(windowTitle, k + 3, Least({x \in tails : x >= k + 4}) - 1)>>

\* a first capture that is greedy: it ends before the last separator that
\* leaves the second capture a character
SongSplitGreedy(windowTitle, firsts, tails) ==
  IF firsts = {} THEN << >> ELSE SongCut(windowTitle, Greatest(firsts), tails)

SongSplit(windowTitle, firsts, tails) ==
  IF firsts = {} THEN << >> ELSE SongCut(windowTitle, Least(firsts), tails)

SongCaptures(windowTitle, seps, tails) ==
  SongSplit(windowTitle, {k \in seps : k >= 2 /\ \E e \in tails : e >= k + 4}, tails)

\* windowTitle.match(/(.+?) - (.+?) - Spotify/): the two captures, or << >>
SongMatch(windowTitle) ==
  SongCaptures(windowTitle, Places(windowTitle, Dash), Places(windowTitle, <<" ", "-", " ", "S", "p", "o", "t", "i", "f", "y">>))

SongState(r, song, artist) ==
  [r EXCEPT !.state = song \o <<" ", "b", "y", " ">> \o artist,
            !.details = IF song # << >> /\ artist # << >>
                        THEN <<"L", "i", "s", "t", "e", "n", "i", "n", "g", " ", "t", "o", " ", "M", "u", "s", "i", "c">> ELSE @]

SpotifyState(r, windowTitle, songMatch) ==
  IF songMatch # << >> THEN SongState(r, Trim(songMatch[1]), Trim(songMatch[2]))
  ELSE IF Trim(windowTitle) = <<"S", "p", "o", "t", "i", "f", "y">> \/ Includes(windowTitle, <<"S", "p", "o", "t", "i", "f", "y", " ", "P", "r", "e", "m", "i", "u", "m">>)
  THEN [r EXCEPT !.state = <<"B", "r", "o", "w", "s", "i", "n", "g", " ", "M", "u", "s", "i", "c">>, !.details = <<"U", "s", "i", "n", "g", " ", "S", "p", "o", "t", "i", "f", "y">>]
  ELSE r

RefineSpotify(r, windowTitle) == SpotifyState(r, windowTitle, SongMatch(windowTitle))

\* windowTitle.split(' - '): parts[0] ends at k, parts[1] at the next
\* separator, if there is one
DiscordState(r, windowTitle, k, later) ==
  IF later # {}
  THEN [r EXCEPT !.state = <<"I", "n", " ", "#">> \o SubSeq(windowTitle, 1, k - 1) \o <<" ", "o", "n", " ">>
                             \o SubSeq(windowTitle, k + 3, Least(later) - 1)]
  ELSE [r EXCEPT !.state = <<"C", "h", "a", "t", "t", "i", "n", "g", " ", "i", "n", " ">> \o SubSeq(windowTitle, 1, k - 1)]

DiscordParts(r, windowTitle, k) ==
  DiscordState(r, windowTitle, k, {x \in Places(windowTitle, Dash) : x >= k + 3})

\* variant: the marker of direct messages is looked for before the separator
RefineDiscordMarkerFirst(r, windowTitle) ==
  IF Includes(ToLowerCase(windowTitle), <<"d", "i", "r", "e", "c", "t">>)
  THEN [r EXCEPT !.state = <<"I", "n", " ", "D", "i", "r", "e", "c", "t", " ", "M", "e", "s", "s", "a", "g", "e", "s">>]
  ELSE IF Includes(windowTitle, Dash)
  THEN DiscordParts(r, windowTitle, Least(Places(windowTitle, Dash)))
  ELSE r

RefineDiscord(r, windowTitle) ==
  IF Includes(windowTitle, Dash)
  THEN DiscordParts(r, windowTitle, Least(Places(windowTitle, Dash)))
  ELSE IF Includes(ToLowerCase(windowTitle), <<"d", "i", "r", "e", "c", "t">>)
  THEN [r EXCEPT !.state = <<"I", "n", " ", "D", "i", "r", "e", "c", "t", " ", "M", "e", "s", "s", "a", "g", "e", "s">>]
  ELSE r

RefineValorant(r, windowTitle) ==
  [r EXCEPT !.details = <<"P", "l", "a", "y", "i", "n", "g", " ", "V", "A", "L", "O", "R", "A", "N", "T">>,
            !.state = IF Includes(ToLowerCase(windowTitle), <<"l", "o", "b", "b", "y">>) THEN <<"I", "n", " ", "L", "o", "b", "b", "y">>
                      ELSE IF Includes(ToLowerCase(windowTitle), <<"m", "a", "t", "c", "h">>) THEN <<"I", "n", " ", "a", " ", "M", "a", "t", "c", "h">>
                      ELSE <<"I", "n", " ", "G", "a", "m", "e">>]

ChromeTail == <<" ", "-", " ", "G", "o", "o", "g", "l", "e", " ", "C", "h", "r", "o", "m", "e">>

ChromeSplit(windowTitle, e, seps) ==
  IF ~At(windowTitle, ChromeTail, e) \/ seps = {} THEN << >>
  ELSE <<SubSeq(windowTitle, 1, Greatest(seps) - 1),
         SubSeq(windowTitle, Greatest(seps) + 3, e - 1)>>

\* the greedy first capture ends before a separator that is followed by a
\* segment without '-' reaching to the tail at e
ChromeCaptures(windowTitle, e) ==
  ChromeSplit(windowTitle, e,
              {k \in Places(windowTitle, Dash) :
                 /\ k >= 2
                 /\ k + 3 <= e - 1
                 /\ \A i \in (k + 3) .. (e - 1) : windowTitle[i] # "-"})

\* windowTitle.match(/(.+) - ([^-]+) - Google Chrome$/): the captures, or << >>
ChromeMatch(windowTitle) ==
  ChromeCaptures(windowTitle, Len(windowTitle) - Len(ChromeTail) + 1)

SimpleCapture(windowTitle, e) ==
  IF e >= 2 /\ At(windowTitle, ChromeTail, e) THEN <<SubSeq(windowTitle, 1, e - 1)>> ELSE << >>

\* windowTitle.match(/(.+) - Google Chrome$/): the capture in a tuple, or << >>
SimpleMatch(windowTitle) ==
  SimpleCapture(windowTitle, Len(windowTitle) - Len(ChromeTail) + 1)

YtCapture(windowTitle, ends) ==
  IF ends = {} THEN << >> ELSE <<SubSeq(windowTitle, 1, Greatest(ends) - 1)>>

\* windowTitle.match(/(.+) - YouTube/): the capture in a tuple, or << >>
YtMatch(windowTitle) ==
  YtCapture(windowTitle, {k \in Places(windowTitle, <<" ", "-", " ", "Y", "o", "u", "T", "u", "b", "e">>) : k >= 2})

ChromeState(r, chromeMatch, simpleMatch) ==
  IF chromeMatch # << >> THEN [r EXCEPT !.state = <<"O", "n", " ">> \o Trim(chromeMatch[2])]
  ELSE IF simpleMatch # << >> THEN [r EXCEPT !.state = <<"O", "n", " ">> \o Trim(simpleMatch[1])]
  ELSE r

ChromeSite(r, windowTitle, ytMatch) ==
  IF Includes(ToLowerCase(windowTitle), <<"y", "o", "u", "t", "u", "b", "e">>)
  THEN [r EXCEPT !.details = <<"W", "a", "t", "c", "h", "i", "n", "g", " ", "Y", "o", "u", "T", "u", "b", "e">>,
                 !.state = IF ytMatch # << >> THEN <<"W", "a", "t", "c", "h", "i", "n", "g", ":", " ">> \o Trim(ytMatch[1]) ELSE @]
  ELSE IF Includes(ToLowerCase(windowTitle), <<"t", "w", "i", "t", "c", "h">>)
  THEN [r EXCEPT !.details = <<"W", "a", "t", "c", "h", "i", "n", "g", " ", "T", "w", "i", "t", "c", "h">>]
  ELSE r

RefineChrome(r, windowTitle) ==
  ChromeSite(ChromeState(r, ChromeMatch(windowTitle), SimpleMatch(windowTitle)),
             windowTitle, YtMatch(windowTitle))

\* the ends of the captures of /\.([^.]+) -/ that begin after the '.' at i
FileEnds(windowTitle, i) ==
  {j \in (i + 1) .. Len(windowTitle) :
     /\ \A x \in (i + 1) .. j : windowTitle[x] # "."
     /\ At(windowTitle, <<" ", "-">>, j + 1)}

FileCapture(windowTitle, dots) ==
  IF dots = {} THEN << >>
  ELSE <<SubSeq(windowTitle, Least(dots) + 1, Greatest(FileEnds(windowTitle, Least(dots))))>>

\* windowTitle.match(/\.([^.]+) -/): the capture in a tuple, or << >>
FileMatch(windowTitle) ==
  FileCapture(windowTitle,
              {i \in 1 .. Len(windowTitle) :
                 windowTitle[i] = "." /\ FileEnds(windowTitle, i) # {}})

\* langMap, as pairs
LangMap ==
  << <<<<"j", "s">>, <<"J", "a", "v", "a", "S", "c", "r", "i", "p", "t">>>>, <<<<"t", "s">>, <<"T", "y", "p", "e", "S", "c", "r", "i", "p", "t">>>>, <<<<"p", "y">>, <<"P", "y", "t", "h", "o", "n">>>>,
     <<<<"j", "a", "v", "a">>, <<"J", "a", "v", "a">>>>, <<<<"c", "p", "p">>, <<"C", "+", "+">>>>, <<<<"c", "s">>, <<"C", "#">>>>, <<<<"h", "t", "m", "l">>, <<"H", "T", "M", "L">>>>,
     <<<<"c", "s", "s">>, <<"C", "S", "S">>>>, <<<<"p", "h", "p">>, <<"P", "H", "P">>>> >>

\* table[key] || otherwise
Lookup(table, key, otherwise) ==
  IF \E i \in 1 .. Len(table) : table[i][1] = key
  THEN table[CHOOSE i \in 1 .. Len(table) : table[i][1] = key][2]
  ELSE otherwise

CodeLanguage(r, extension) ==
  [r EXCEPT !.state = <<"C", "o", "d", "i", "n", "g", " ", "i", "n", " ">> \o Lookup(LangMap, extension, extension)]

CodeState(r, fileMatch) ==
  IF fileMatch # << >> THEN CodeLanguage(r, ToLowerCase(fileMatch[1])) ELSE r

RefineCode(r, windowTitle) == CodeState(r, FileMatch(windowTitle))

\* the special handling of the priority loop, chosen by the entry's token
RefineBy(token, r, processName, windowTitle) ==
  IF Includes(token, <<"s", "p", "o", "t", "i", "f", "y">>) THEN RefineSpotify(r, windowTitle)
  ELSE IF Includes(token, <<"d", "i", "s", "c", "o", "r", "d">>) THEN RefineDiscord(r, windowTitle)
  ELSE IF \/ Includes(token, <<"v", "a", "l", "o", "r", "a", "n", "t">>)
          \/ ToLowerCase(processName) = <<"V", "A", "L", "O", "R", "A", "N", "T", "-", "W", "i", "n", "6", "4", "-", "S", "h", "i", "p", "p", "i", "n", "g">>
  THEN RefineValorant(r, windowTitle)
  ELSE IF Includes(token, <<"c", "h", "r", "o", "m", "e">>) THEN RefineChrome(r, windowTitle)
  ELSE IF token = <<"c", "o", "d", "e">> THEN RefineCode(r, windowTitle)
  ELSE r

\* what a matching entry of priorityApps or customApps assigns
Applied(app, windowTitle) ==
  [activityType |-> app.type, largeImageKey |-> app.icon, details |-> app.details,
   state |-> windowTitle, matchedApp |-> TRUE]

\* the body of the priority loop for the entry that matched
Refine(app, processName, windowTitle) ==
  RefineBy(ToLowerCase(app.processName), Applied(app, windowTitle), processName, windowTitle)

\* variant: a basic detection that shows every title, however short
BasicAnyTitle(windowTitle, processName) ==
  [activityType |-> <<"a", "p", "p">>, largeImageKey |-> <<"w", "i", "n", "d", "o", "w", "s">>,
   details |-> <<"U", "s", "i", "n", "g", " ">> \o processName, state |-> windowTitle,
   matchedApp |-> FALSE]

\* the basic activity detection
Basic(windowTitle, processName) ==
  [activityType |-> <<"a", "p", "p">>, largeImageKey |-> <<"w", "i", "n", "d", "o", "w", "s">>,
   details |-> <<"U", "s", "i", "n", "g", " ">> \o processName,
   state |-> IF Len(windowTitle) > 2 THEN windowTitle ELSE <<"I", "d", "l", "e">>,
   matchedApp |-> FALSE]

\* priority apps first, custom apps if none of them matched; p and c are the
\* indices of the first matching entries
Ruled(windowTitle, processName, cfg, p, c) ==
  IF p # 0 THEN Refine(cfg.priorityApps[p], processName, windowTitle)
  ELSE IF c # 0 THEN Applied(cfg.customApps[c], windowTitle)
  ELSE Basic(windowTitle, processName)

Valorant == <<"V", "A", "L", "O", "R", "A", "N", "T", "-", "W", "i", "n", "6", "4", "-", "S", "h", "i", "p", "p", "i", "n", "g">>

\* the game-specific detection logic
GameSpecific(r, windowTitle, processName) ==
  IF processName = Valorant
  THEN [activityType |-> <<"g", "a", "m", "e", "s">>, largeImageKey |-> <<"v", "a", "l", "o", "r", "a", "n", "t">>,
        details |-> <<"P", "l", "a", "y", "i", "n", "g", " ", "V", "A", "L", "O", "R", "A", "N", "T">>,
        state |-> IF Includes(ToLowerCase(windowTitle), <<"l", "o", "b", "b", "y">>)
                  THEN <<"I", "n", " ", "L", "o", "b", "b", "y">> ELSE <<"I", "n", " ", "G", "a", "m", "e">>,
        matchedApp |-> TRUE]
  ELSE r

\* if no app matched, use a generic default
Generic(r) == IF r.matchedApp THEN r ELSE [r EXCEPT !.largeImageKey = <<"w", "i", "n", "d", "o", "w", "s">>]

\* activityToAppType, as pairs
ActivityToAppType ==
  << <<<<"g", "a", "m", "i", "n", "g">>, <<"g", "a", "m", "e", "s">>>>, <<<<"m", "u", "s", "i", "c">>, <<"m", "u", "s", "i", "c">>>>, <<<<"c", "o", "d", "i", "n", "g">>, <<"c", "o", "d", "e">>>>,
     <<<<"b", "r", "o", "w", "s", "i", "n", "g">>, <<"w", "e", "b">>>>, <<<<"c", "h", "a", "t">>, <<"m", "e", "s", "s", "a", "g", "i", "n", "g">>>>, <<<<"d", "e", "s", "i", "g", "n">>, <<"c", "r", "e", "a", "t", "i", "v", "e">>>>,
     <<<<"s", "t", "r", "e", "a", "m", "i", "n", "g">>, <<"c", "r", "e", "a", "t", "i", "v", "e">>>> >>

\* the appType after the activity type has been mapped to one
Typed(r, appType) ==
  [appType |-> IF appType = <<"d", "e", "f", "a", "u", "l", "t">> /\ r.activityType # <<"a", "p", "p">>
               THEN Lookup(ActivityToAppType, r.activityType, appType)
               ELSE appType,
   activityType |-> r.activityType, largeImageKey |-> r.largeImageKey,
   details |-> r.details, state |-> r.state]

\* The classification of getCurrentActivity, from the window title and the
\* process name to appType, activityType, largeImageKey, details and state.
Classify(windowTitle, processName, cfg) ==
  Typed(Generic(GameSpecific(Ruled(windowTitle, processName, cfg,
                                   FirstMatch(cfg.priorityApps, processName, windowTitle),
                                   FirstMatch(cfg.customApps, processName, windowTitle)),
                             windowTitle, processName)),
        IF processName = Valorant THEN <<"g", "a", "m", "e", "s">>
        ELSE AppTypeOf(cfg.applications, processName, windowTitle))

\* ----------------------------------------------------- configuration
DefaultClientId == "D"

\* What getCurrentActivity detects in one poll: the process name, the
\* identity category (appType) and the activity category (activityType).
Detection(p, a, t) == [processName |-> p, appType |-> a, activityType |-> t]

\* what is detected when the query for the foreground window failed
UnknownSample == Detection("Unknown", "default", "app")

\* The config.json files of the modelled runs, each with the detections its
\* rules produce for the windows the user visits.
\*  - identities: applications.games and applications.music have their own
\*    client id and name the processes steam and spotify; no priority rule.
\*  - rules: one identity; a priority rule of type music that names spotify
\*    (a browser tab showing the player matches it by its title), so that
\*    the activity type and, through activityToAppType, the identity category
\*    change while the process stays the same.
ConfigIdentities(interval) ==
  [updateInterval |-> interval,
   applications |-> [games |-> "X", music |-> "Y"],
   detections |-> { Detection("chrome", "default", "app"),
                    Detection("spotify", "music", "app"),
                    Detection("steam", "games", "app") }]

ConfigRules(interval) ==
  [updateInterval |-> interval,
   applications |-> [games |-> DefaultClientId, music |-> DefaultClientId],
   detections |-> { Detection("chrome", "default", "app"),
                    Detection("explorer", "default", "app"),
                    UnknownSample,
                    Detection("chrome", "music", "music"),
                    Detection("spotify", "music", "music") }]

\* the poll intervals a run may be configured with (ms)
UpdateIntervals == {2000, DefaultUpdateInterval}

Configs == {ConfigIdentities(i) : i \in UpdateIntervals}
             \cup {ConfigRules(i) : i \in UpdateIntervals}

\* detection raised: the catch branch of getCurrentActivity
Failed == Detection("explorer", "default", "-")

ActivityTypes == {"app", "music"}

\* the first instant (Date.now() when the module is loaded)
Epoch == Ms(1000000)

ClientRefs == 0 .. (MaxClients - 1)

VARIABLES
  now,                 \* Date.now()
  config,              \* config.json, read once
  currentClientId, client, clientConnected, reconnectAttempts,   \* module state
  lastActivity, lastProcessName, lastAppType, startTime,         \* ActivityTracker
  dailyActivityStats,
  updateInterval, switchTimeout, lastSwitchTime, isReconnecting, \* DiscordRPCApp
  timers,              \* pending setTimeout / setInterval timers
  clients,             \* the Client objects: state of their connection
  logins,              \* client.login() calls not yet settled
  destroying,          \* switch callbacks suspended at await client.destroy()
  switched,            \* what the switchClient call of this instant did
  published,           \* the payload handed to client.setActivity in this instant
  polled,              \* the detection of this instant's poll and the session before it
  faults,              \* failures the transport has produced
  stopped,             \* stop() has run
  exited,              \* the runtime has ended the process
  activeWindow,        \* the foreground window the classifier is called on
  classified           \* what the calls of getCurrentActivity returned, as text

conn == <<currentClientId, client, clientConnected, reconnectAttempts,
          updateInterval, switchTimeout, lastSwitchTime, isReconnecting,
          timers, clients, logins, destroying>>

session == <<lastActivity, lastProcessName, lastAppType, startTime, dailyActivityStats>>

observed == <<switched, published, polled>>

sampling == <<activeWindow, classified>>

vars == <<now, config, conn, session, observed, faults, stopped, exited, sampling>>

\* the last instant of a run
Horizon == Epoch + (MaxTenths * Ms(config.updateInterval)) \div 10

\* -------------------------------------------------------------- timers
\* a timer handle is the least number no pending timer of the kind has
FreshId(ts, kind) ==
  CHOOSE i \in 0 .. Cardinality(ts) :
    /\ \A t \in ts : t.kind = kind => t.id # i
    /\ \A j \in 0 .. (i - 1) : \E t \in ts : t.kind = kind /\ t.id = j

SetTimer(ts, kind, delay, target, attempt) ==
  [kind |-> kind, id |-> FreshId(ts, kind), delay |-> delay, due |-> now + delay,
   target |-> target, attempt |-> attempt]

ClearTimer(ts, kind, h) == {t \in ts : ~(t.kind = kind /\ t.id = h)}

Due(kind) == {t \in timers : t.kind = kind /\ t.due = now}

Pending(kind) == {t \in timers : t.kind = kind}

\* ------------------------------------------------------------- clients
NoClient == [status |-> "none", id |-> "-", closing |-> FALSE]

Live(c) == c.status \in {"connecting", "connected"}

\* The connection-manager part of the state, as one record the handlers
\* transform.
Cur ==
  [currentClientId |-> currentClientId, client |-> client,
   clientConnected |-> clientConnected, reconnectAttempts |-> reconnectAttempts,
   updateInterval |-> updateInterval, switchTimeout |-> switchTimeout,
   lastSwitchTime |-> lastSwitchTime, isReconnecting |-> isReconnecting,
   timers |-> timers, clients |-> clients, logins |-> logins,
   destroying |-> destroying]

\* A Client object that nothing refers to and that can emit nothing any more
\* is collected.
Garbage(M, c) ==
  /\ c # M.client
  /\ M.clients[c].status \in {"idle", "destroyed"}
  /\ ~M.clients[c].closing
  /\ \A l \in M.logins : l.client # c
  /\ \A d \in M.destroying : d.client # c

Collect(M) ==
  [M EXCEPT !.clients = [c \in ClientRefs |-> IF Garbage(M, c) THEN NoClient ELSE M.clients[c]]]

Commit(M0) ==
  LET M == Collect(M0) IN
  /\ currentClientId' = M.currentClientId
  /\ client' = M.client
  /\ clientConnected' = M.clientConnected
  /\ reconnectAttempts' = M.reconnectAttempts
  /\ updateInterval' = M.updateInterval
  /\ switchTimeout' = M.switchTimeout
  /\ lastSwitchTime' = M.lastSwitchTime
  /\ isReconnecting' = M.isReconnecting
  /\ timers' = M.timers
  /\ clients' = M.clients
  /\ logins' = M.logins
  /\ destroying' = M.destroying

\* client.login({ clientId }) on Client c: connect(identity) of the transport
Login(M, c, id, by) ==
  [M EXCEPT !.clients[c] = IF Live(@) THEN @
                           ELSE [status |-> "connecting", id |-> id, closing |-> @.closing],
            !.logins = @ \cup {[client |-> c, id |-> id, by |-> by, age |-> 0]}]

\* client.destroy() on Client c: the transport closes, and a connection that
\* was open emits 'disconnected' when it has closed
Destroy(M, c) ==
  [M EXCEPT !.clients[c] = [status |-> "destroyed", id |-> @.id,
                            closing |-> (@.closing \/ Live(@))]]

\* ------------------------------------------------------ DiscordRPCApp
\* variant: a backoff that doubles
BackoffDoubling(n) ==
  IF n > 8 THEN Ms(BackoffCap) ELSE Min(Ms(BackoffBase) * 2^(n - 1), Ms(BackoffCap))

\* Math.min(15000 * Math.pow(1.5, reconnectAttempts - 1), 120000); beyond
\* the eighth attempt the power is far above the cap
BackoffTime(n) ==
  IF n > 8 THEN Ms(BackoffCap)
  ELSE Min((Ms(BackoffBase) * 3^(n - 1)) \div 2^(n - 1), Ms(BackoffCap))

\* variant: a reconnect that stops at MAX_RECONNECT_ATTEMPTS
ReconnectGivesUp(M) ==
  IF M.isReconnecting \/ M.reconnectAttempts >= MaxReconnectAttempts THEN M
  ELSE LET n == M.reconnectAttempts + 1 IN
       [M EXCEPT !.isReconnecting = TRUE,
                 !.reconnectAttempts = n,
                 !.timers = @ \cup {SetTimer(@, "reconnect", BackoffTime(n), "-", n)}]

\* variant: a reconnect without the isReconnecting early return
ReconnectUnguarded(M) ==
  LET n == M.reconnectAttempts + 1 IN
  [M EXCEPT !.isReconnecting = TRUE,
            !.reconnectAttempts = n,
            !.timers = @ \cup {SetTimer(@, "reconnect", BackoffTime(n), "-", n)}]

Reconnect(M) ==
  IF M.isReconnecting THEN M
  ELSE LET n == M.reconnectAttempts + 1 IN
       [M EXCEPT !.isReconnecting = TRUE,
                 !.reconnectAttempts = n,
                 !.timers = @ \cup {SetTimer(@, "reconnect", BackoffTime(n), "-", n)}]

\* variant: a start() that connects with the identity recorded as current
StartAsCurrent(M) == Login(M, M.client, M.currentClientId, "start")

Start(M) == Login(M, M.client, DefaultClientId, "start")

\* variant: a tracking start that leaves the previous interval running
StartActivityTrackingKeeps(M) ==
  LET t == SetTimer(M.timers, "poll", Ms(config.updateInterval), "-", 0)
  IN [M EXCEPT !.timers = @ \cup {t}, !.updateInterval = t.id]

StartActivityTracking(M) ==
  LET ts == IF M.updateInterval # NULL
            THEN ClearTimer(M.timers, "poll", M.updateInterval) ELSE M.timers
      t == SetTimer(ts, "poll", Ms(config.updateInterval), "-", 0)
  IN [M EXCEPT !.timers = ts \cup {t}, !.updateInterval = t.id]

\* variant: a 'ready' handler that keeps the attempt counter
ReadyKeepsAttempts(M) == StartActivityTracking([M EXCEPT !.clientConnected = TRUE])

ReadyHandler(M) ==
  StartActivityTracking([M EXCEPT !.clientConnected = TRUE, !.reconnectAttempts = 0])

\* variant: an 'error' handler that also stops the poll interval
ErrorHandlerStopsPolling(M) ==
  LET M1 == [M EXCEPT !.clientConnected = FALSE,
                      !.timers = ClearTimer(@, "poll", M.updateInterval),
                      !.updateInterval = NULL] IN
  IF ~M1.isReconnecting THEN Reconnect(M1) ELSE M1

ErrorHandler(M) ==
  LET M1 == [M EXCEPT !.clientConnected = FALSE] IN
  IF ~M1.isReconnecting THEN Reconnect(M1) ELSE M1

DisconnectedHandler(M) ==
  LET M1 == [M EXCEPT !.clientConnected = FALSE] IN
  IF ~M1.isReconnecting THEN Reconnect(M1) ELSE M1

\* config.applications[appType] ? config.applications[appType].clientId
\*                              : config.defaultClientId
ClientIdFor(appType) ==
  IF appType \in DOMAIN config.applications THEN config.applications[appType]
  ELSE DefaultClientId

\* variant: a rate limit of ten seconds
RateLimitedTen(M) == now - M.lastSwitchTime < Ms(10000)

RateLimited(M) == now - M.lastSwitchTime < Ms(SwitchRateLimit)

NoSwitch == [result |-> "none", target |-> "-", replaced |-> "-"]

\* What switchClient(newClientId) answers at once: the identity is already
\* connected, the request is dropped, or the debounce timer is armed.
SwitchResult(M, newClientId) ==
  IF newClientId = M.currentClientId /\ M.clientConnected THEN "noop"
  ELSE IF RateLimited(M) THEN "dropped"
  ELSE "scheduled"

\* the target of the pending debounce timer that an accepted request clears
Replaced(M, newClientId) ==
  LET old == {t \in M.timers : t.kind = "switch" /\ t.id = M.switchTimeout} IN
  IF SwitchResult(M, newClientId) = "scheduled" /\ old # {}
  THEN (CHOOSE t \in old : TRUE).target ELSE "-"

\* variant: a switchClient that leaves the pending debounce timer alone
SwitchClientKeep(M, newClientId) ==
  IF SwitchResult(M, newClientId) # "scheduled" THEN M
  ELSE LET t == SetTimer(M.timers, "switch", Ms(SwitchDebounce), newClientId, 0)
       IN [M EXCEPT !.timers = @ \cup {t}, !.switchTimeout = t.id]

SwitchClient(M, newClientId) ==
  IF SwitchResult(M, newClientId) # "scheduled" THEN M
  ELSE LET ts == IF M.switchTimeout # NULL
                 THEN ClearTimer(M.timers, "switch", M.switchTimeout) ELSE M.timers
           t == SetTimer(ts, "switch", Ms(SwitchDebounce), newClientId, 0)
       IN [M EXCEPT !.timers = ts \cup {t}, !.switchTimeout = t.id]

\* the free Client slot that new Client() takes
NewClient(M) == CHOOSE c \in ClientRefs :
  /\ M.clients[c].status = "none"
  /\ \A b \in ClientRefs : M.clients[b].status = "none" => c <= b

CanCreate(M) == \E c \in ClientRefs : Collect(M).clients[c].status = "none"

\* switchClient's timer callback from "Create a new client" on
SwitchConnect(M0, newClientId) ==
  LET M == Collect(M0)
      c == NewClient(M)
  IN  Login([M EXCEPT !.client = c,
                      !.clients[c] = [status |-> "idle", id |-> "-", closing |-> FALSE]],
            c, newClientId, "switch")

\* ---------------------------------------------------- ActivityTracker
\* variant: the comparison of the single-identity tracker, process name only
ChangedProcessOnly(det) == det.processName # lastProcessName

\* variant: a tracker that takes its first poll as the start of no new session
ChangedAfterFirst(det) ==
  /\ lastAppType # ""
  /\ (det.processName # lastProcessName \/ det.appType # lastAppType)

Changed(det) == det.processName # lastProcessName \/ det.appType # lastAppType

TrackActivityTime(stats, activityType) ==
  [stats EXCEPT ![activityType] = @ + TrackIncrement]

\* ---------------------------------------------------------------- payload
\* os.hostname()
HostName == <<"D", "E", "S", "K", "T", "O", "P", "-", "P", "C">>

\* os.release()
Release == <<"1", "0", ".", "0", ".", "1", "9", "0", "4", "5">>

\* a text of n characters
LongText(n) == [i \in 1 .. n |-> "x"]

SpotifyApp == App(<<"s", "p", "o", "t", "i", "f", "y">>, <<"m", "u", "s", "i", "c">>, <<"s", "p", "o", "t", "i", "f", "y">>, <<"M", "u", "s", "i", "c">>)
ValorantApp == App(<<"v", "a", "l", "o", "r", "a", "n", "t">>, <<"g", "a", "m", "i", "n", "g">>, <<"v", "a", "l", "o", "r", "a", "n", "t", "-", "i", "c", "o", "n">>, <<"G", "a", "m", "i", "n", "g">>)
SteamApp == App(<<"s", "t", "e", "a", "m">>, <<"g", "a", "m", "i", "n", "g">>, <<"s", "t", "e", "a", "m">>, <<"O", "n", " ", "S", "t", "e", "a", "m">>)
PaintApp == App(<<"p", "a", "i", "n", "t">>, <<"d", "e", "s", "i", "g", "n">> \o LongText(LongLength), <<"p", "a", "i", "n", "t">>, <<"D", "r", "a", "w", "i", "n", "g">> \o LongText(LongLength))
NotepadApp == App(<<"n", "o", "t", "e", "p", "a", "d">>, <<"n", "o", "t", "e", "s">>, <<"n", "o", "t", "e", "p", "a", "d">>, <<"W", "r", "i", "t", "i", "n", "g">>)

ChromeApp == App(<<"c", "h", "r", "o", "m", "e">>, <<"b", "r", "o", "w", "s", "i", "n", "g">>, <<"c", "h", "r", "o", "m", "e">>, <<"B", "r", "o", "w", "s", "i", "n", "g">>)
CodeApp == App(<<"c", "o", "d", "e">>, <<"c", "o", "d", "i", "n", "g">>, <<"v", "s", "c", "o", "d", "e">>, <<"C", "o", "d", "i", "n", "g">>)
DiscordApp == App(<<"d", "i", "s", "c", "o", "r", "d">>, <<"c", "h", "a", "t">>, <<"d", "i", "s", "c", "o", "r", "d">>, <<"C", "h", "a", "t", "t", "i", "n", "g">>)

\* the orders in which the priority rules of a config.json are listed
PriorityLists ==
  { <<SpotifyApp, SteamApp, ValorantApp>>,
    <<SteamApp, ValorantApp, SpotifyApp>>,
    <<PaintApp, SteamApp>>,
    <<ChromeApp, CodeApp, DiscordApp>> }

\* the feature toggles, enableDetailedStats and enableSystemInfo
Toggles == {<<TRUE, TRUE>>, <<FALSE, FALSE>>}

\* the custom rules of a config.json
CustomLists == {<<NotepadApp>>, <<NotepadApp, ValorantApp>>}

\* config.applications with a category for the games of the distribution
\* client, and with one for the player as well
GamesOnly == << [type |-> <<"g", "a", "m", "e", "s">>, processNames |-> <<<<"s", "t", "e", "a", "m">>>>] >>

GamesAndMusic ==
  << [type |-> <<"g", "a", "m", "e", "s">>, processNames |-> <<<<"s", "t", "e", "a", "m">>>>],
     [type |-> <<"m", "u", "s", "i", "c">>, processNames |-> <<<<"s", "p", "o", "t", "i", "f", "y">>>>] >>

TextConfig(applications, p, c, g) ==
  [updateInterval |-> DefaultUpdateInterval,
   enableDetailedStats |-> g[1], enableSystemInfo |-> g[2],
   applications |-> applications, priorityApps |-> p, customApps |-> c]

TextConfigs ==
  {TextConfig(GamesOnly, p, c, g) : p \in PriorityLists, c \in CustomLists, g \in Toggles}
    \cup {TextConfig(GamesAndMusic, <<SteamApp, ValorantApp, SpotifyApp>>, <<NotepadApp>>, g) :
            g \in Toggles}

Tracks == {<<"S", "o", "n", "g">>, <<"H", "e", "y", " ", "-", " ", "L", "i", "v", "e">>, <<" ", "S", "o", "n", "g">>}

Artists == {<<"A", "r", "t", "i", "s", "t">>, <<"A", "C", " ", "-", " ", "D", "C">>}

\* '<track> - <artist> - Spotify'
SpotifyTitle(track, artist) == track \o Dash \o artist \o <<" ", "-", " ", "S", "p", "o", "t", "i", "f", "y">>

\* what the PowerShell script reported for the foreground window
Window(title, process) == [MainWindowTitle |-> title, ProcessName |-> process]

\* how a query for the foreground window can end without a window: the
\* script cannot be run, it prints what is not JSON, or it finds no process
QueryOutcomes == {"failed", "malformed", "none"}

\* variant: an acquisition that substitutes nothing
AcquireRaw(outcome) == Window(<< >>, << >>)

\* activeWindow after such a query: the script's own answer for no process,
\* or the window the two catch blocks substitute
Acquire(outcome) ==
  IF outcome = "none" THEN Window(<< >>, <<"U", "n", "k", "n", "o", "w", "n">>)
  ELSE Window(<<"U", "n", "k", "n", "o", "w", "n", " ", "W", "i", "n", "d", "o", "w">>, <<"U", "n", "k", "n", "o", "w", "n">>)

\* the page and site names of the browser's titles
Pages == {<<"P", "a", "g", "e">>, <<"V", "i", "d", "e", "o">>}

Sites == {<<"S", "i", "t", "e">>, <<"S", "t", "a", "c", "k", "-", "O", "v", "e", "r", "f", "l", "o", "w">>, <<"Y", "o", "u", "T", "u", "b", "e">>}

\* '<page> - <site> - Google Chrome'
ChromeTitle(page, site) == page \o Dash \o site \o ChromeTail

\* the windows of the browser, and one of another process that shows a
\* browser's title
BrowserWindows ==
  {Window(ChromeTitle(p, s), <<"c", "h", "r", "o", "m", "e">>) : p \in Pages, s \in Sites}
    \cup {Window(p \o ChromeTail, <<"c", "h", "r", "o", "m", "e">>) : p \in Pages}
    \cup {Window(ChromeTitle(<<"P", "a", "g", "e">>, <<"S", "i", "t", "e">>), p) : p \in {<<"n", "o", "t", "e", "p", "a", "d">>, Valorant}}

\* the segments of the chat client's titles: channel or conversation, then
\* servers, then the name of the client
ChatSegments ==
  { <<<<"g", "e", "n", "e", "r", "a", "l">>, <<"S", "e", "r", "v", "e", "r">>, <<"D", "i", "s", "c", "o", "r", "d">>>>,
    <<<<"D", "i", "r", "e", "c", "t", " ", "M", "e", "s", "s", "a", "g", "e", "s">>, <<"S", "e", "r", "v", "e", "r">>, <<"D", "i", "s", "c", "o", "r", "d">>>>,
    <<<<"g", "e", "n", "e", "r", "a", "l">>, <<"M", "y">>, <<"S", "e", "r", "v", "e", "r">>, <<"D", "i", "s", "c", "o", "r", "d">>>>,
    <<<<"F", "r", "i", "e", "n", "d", "s">>, <<"D", "i", "s", "c", "o", "r", "d">>>>,
    <<<<"D", "i", "r", "e", "c", "t", " ", "M", "e", "s", "s", "a", "g", "e", "s">>, <<"D", "i", "s", "c", "o", "r", "d">>>>,
    <<<<"D", "i", "r", "e", "c", "t", " ", "M", "e", "s", "s", "a", "g", "e", "s">>>>,
    <<<<"D", "i", "s", "c", "o", "r", "d">>>> }

\* the title whose split(' - ') is parts
JoinDash(parts) ==
  [i \in 1 .. Len(parts) |-> IF i = 1 THEN parts[i] ELSE Dash \o parts[i]]

RECURSIVE Concat(_)
Concat(parts) == IF parts = << >> THEN << >> ELSE Head(parts) \o Concat(Tail(parts))

ChatTitle(parts) == Concat(JoinDash(parts))

\* the windows of the chat client, and one of the game that shows its title
ChatWindows ==
  {Window(ChatTitle(s), <<"D", "i", "s", "c", "o", "r", "d">>) : s \in ChatSegments}
    \cup {Window(ChatTitle(<<<<"F", "r", "i", "e", "n", "d", "s">>, <<"D", "i", "s", "c", "o", "r", "d">>>>), Valorant)}

\* the titles of the distribution client's window
SteamTitles ==
  { <<"S", "t", "e", "a", "m">>, <<"S", "t", "o", "r", "e">>, <<"L", "i", "b", "r", "a", "r", "y">>, <<"C", "o", "m", "m", "u", "n", "i", "t", "y">>, <<"F", "r", "i", "e", "n", "d", "s", " ", "L", "i", "s", "t">>,
    <<"P", "o", "r", "t", "a", "l", " ", "2", " ", "-", " ", "S", "t", "e", "a", "m">>, <<"S", "t", "o", "r", "e", " ", "-", " ", "S", "t", "e", "a", "m">>, <<"L", "i", "b", "r", "a", "r", "y", " ", "-", " ", "S", "t", "e", "a", "m">>,
    <<"C", "o", "m", "m", "u", "n", "i", "t", "y", " ", "-", " ", "S", "t", "e", "a", "m">>, <<"P", "o", "r", "t", "a", "l", " ", "2", " ", "-", " ", "S", "t", "o", "r", "e">>, <<"H", "a", "l", "f", "-", "L", "i", "f", "e", " ", "-", " ", "S", "o", "u", "r", "c", "e", " ", "-", " ", "S", "t", "e", "a", "m">> }

\* the windows of the distribution client
SteamWindows == {Window(t, p) : t \in SteamTitles, p \in {<<"s", "t", "e", "a", "m">>, <<"s", "t", "e", "a", "m", "w", "e", "b", "h", "e", "l", "p", "e", "r">>}}

\* the files open in the editor and what follows their name in its title
Files == {<<"i", "n", "d", "e", "x", ".", "t", "s">>, <<"n", "o", "t", "e", "s", ".", "x", "y", "z">>, <<"R", "E", "A", "D", "M", "E", ".", "X", "Y", "Z">>}

EditorSuffixes == {<< >>, <<" ", "-", " ", "V", "i", "s", "u", "a", "l", " ", "S", "t", "u", "d", "i", "o", " ", "C", "o", "d", "e">>, <<" ", "-", " ", "p", "r", "o", "j", " ", "-", " ", "V", "i", "s", "u", "a", "l", " ", "S", "t", "u", "d", "i", "o", " ", "C", "o", "d", "e">>}

\* the windows of the editor
EditorWindows == {Window(f \o s, <<"C", "o", "d", "e">>) : f \in Files, s \in EditorSuffixes}

\* the foreground windows of the modelled runs
Windows ==
  {Window(SpotifyTitle(t, a), <<"S", "p", "o", "t", "i", "f", "y">>) : t \in Tracks, a \in Artists}
    \cup {Window(SpotifyTitle(<<"S", "o", "n", "g">>, <<"A", "r", "t", "i", "s", "t">>), p) : p \in {<<"s", "t", "e", "a", "m">>, Valorant}}
    \cup {Window(<<"S", "p", "o", "t", "i", "f", "y">>, p) : p \in {<<"S", "p", "o", "t", "i", "f", "y">>, Valorant}}
    \cup {Window(t, p) : t \in {<<"S", "t", "e", "a", "m", " ", "L", "o", "b", "b", "y">>, <<"a", "b">>, << >>}, p \in {<<"s", "t", "e", "a", "m">>, <<"n", "o", "t", "e", "p", "a", "d">>, << >>}}
    \cup {Window(LongText(LongLength), p) : p \in {<<"m", "s", "p", "a", "i", "n", "t">>, <<"n", "o", "t", "e", "p", "a", "d">>}}
    \cup {Window(<<"a", "b">>, <<"m", "s", "p", "a", "i", "n", "t">>), Window(<<"S", "t", "e", "a", "m", " ", "L", "o", "b", "b", "y">>, Valorant)}
    \cup {Acquire(o) : o \in QueryOutcomes}
    \cup BrowserWindows
    \cup EditorWindows
    \cup ChatWindows
    \cup SteamWindows

\* the activity types a run of the classifier can count time for
TypesOf(cfg) ==
  {<<"a", "p", "p">>, <<"g", "a", "m", "e", "s">>} \cup {cfg.priorityApps[i].type : i \in 1 .. Len(cfg.priorityApps)}
                   \cup {cfg.customApps[i].type : i \in 1 .. Len(cfg.customApps)}

\* the load of processor and memory at its extremes (per cent)
Loads == {0, 100}

\* the seconds that pass between two polls
Waits == {42, 3780}

\* activeWindow.MainWindowTitle || "Unknown"
OrUnknown(s) == IF s = << >> THEN <<"U", "n", "k", "n", "o", "w", "n">> ELSE s

\* formattedState: the state with the statistics the settings ask for
FormattedState(state, formattedDuration, cfg, cpuUsage, memoryUsage) ==
  IF cfg.enableDetailedStats
  THEN Substring(state, 0, 60) \o <<" ", "|", " ">> \o formattedDuration
         \o (IF cfg.enableSystemInfo
             THEN <<" ", "|", " ", "C", "P", "U", ":", " ">> \o NumberText(cpuUsage) \o <<"%", ",", " ", "R", "A", "M", ":", " ">>
                    \o NumberText(memoryUsage) \o <<"%">>
             ELSE << >>)
  ELSE state

\* the ActivityData of the try branch
Activity(r, formattedDuration, daily, cfg, cpuUsage, memoryUsage, start) ==
  [details |-> Substring(r.details, 0, 128),
   state |-> Substring(FormattedState(r.state, formattedDuration, cfg, cpuUsage, memoryUsage),
                       0, 128),
   largeImageKey |-> r.largeImageKey,
   largeImageText |-> Capitalize(r.activityType) \o <<" ", "f", "o", "r", " ">> \o formattedDuration,
   smallImageKey |-> <<"i", "n", "f", "o">>,
   smallImageText |-> HostName \o <<" ", "|", " ", "T", "o", "d", "a", "y", ":", " ">> \o FormatDuration(daily * 1000),
   startTimestamp |-> start]

\* the ActivityData of the catch branch
FallbackActivity ==
  [details |-> <<"O", "n", "l", "i", "n", "e">>, state |-> <<"U", "s", "i", "n", "g", " ", "W", "i", "n", "d", "o", "w", "s">>, largeImageKey |-> <<"w", "i", "n", "d", "o", "w", "s">>,
   largeImageText |-> <<"W", "i", "n", "d", "o", "w", "s", " ">> \o Release, startTimestamp |-> startTime]

\* variant: a tracker that stamps every payload with the time of the poll
GetCurrentActivityPollTime(det) ==
  IF det = Failed
  THEN [startTime |-> startTime, lastProcessName |-> lastProcessName,
        lastAppType |-> lastAppType, lastActivity |-> lastActivity,
        dailyActivityStats |-> dailyActivityStats,
        activity |-> [details |-> "Online", startTimestamp |-> now],
        appType |-> "default", processName |-> "explorer"]
  ELSE LET reset == Changed(det)
           start == IF reset THEN now ELSE startTime
       IN [startTime |-> start,
           lastProcessName |-> IF reset THEN det.processName ELSE lastProcessName,
           lastAppType |-> IF reset THEN det.appType ELSE lastAppType,
           lastActivity |-> det.activityType,
           dailyActivityStats |-> TrackActivityTime(dailyActivityStats, det.activityType),
           activity |-> [details |-> det.activityType, startTimestamp |-> now],
           appType |-> det.appType, processName |-> det.processName]

\* variant: a tracker whose catch branch opens a session for 'explorer'
GetCurrentActivityFallbackSession(det) ==
  IF det = Failed
  THEN [startTime |-> now, lastProcessName |-> "explorer",
        lastAppType |-> "default", lastActivity |-> lastActivity,
        dailyActivityStats |-> dailyActivityStats,
        activity |-> [details |-> "Online", startTimestamp |-> now],
        appType |-> "default", processName |-> "explorer"]
  ELSE LET reset == Changed(det)
           start == IF reset THEN now ELSE startTime
       IN [startTime |-> start,
           lastProcessName |-> IF reset THEN det.processName ELSE lastProcessName,
           lastAppType |-> IF reset THEN det.appType ELSE lastAppType,
           lastActivity |-> det.activityType,
           dailyActivityStats |-> TrackActivityTime(dailyActivityStats, det.activityType),
           activity |-> [details |-> det.activityType, startTimestamp |-> start],
           appType |-> det.appType, processName |-> det.processName]

\* getCurrentActivity: the session fields after the poll and what it returns
GetCurrentActivity(det) ==
  IF det = Failed
  THEN [startTime |-> startTime, lastProcessName |-> lastProcessName,
        lastAppType |-> lastAppType, lastActivity |-> lastActivity,
        dailyActivityStats |-> dailyActivityStats,
        activity |-> [details |-> "Online", startTimestamp |-> startTime],
        appType |-> "default", processName |-> "explorer"]
  ELSE LET reset == Changed(det)
           start == IF reset THEN now ELSE startTime
       IN [startTime |-> start,
           lastProcessName |-> IF reset THEN det.processName ELSE lastProcessName,
           lastAppType |-> IF reset THEN det.appType ELSE lastAppType,
           lastActivity |-> det.activityType,
           dailyActivityStats |-> TrackActivityTime(dailyActivityStats, det.activityType),
           activity |-> [details |-> det.activityType, startTimestamp |-> start],
           appType |-> det.appType, processName |-> det.processName]

\* --------------------------------------------------- windows of the runs
\* the spelling of the names the detections are written with
Spell ==
  [chrome |-> <<"c", "h", "r", "o", "m", "e">>, spotify |-> <<"s", "p", "o", "t", "i", "f", "y">>, steam |-> <<"s", "t", "e", "a", "m">>,
   explorer |-> <<"e", "x", "p", "l", "o", "r", "e", "r">>, default |-> <<"d", "e", "f", "a", "u", "l", "t">>, app |-> <<"a", "p", "p">>,
   music |-> <<"m", "u", "s", "i", "c">>, games |-> <<"g", "a", "m", "e", "s">>,
   Unknown |-> <<"U", "n", "k", "n", "o", "w", "n">>]

\* The config.json behind a configuration of the modelled runs: the one with
\* identities lists the processes of its categories and keeps the default
\* toggles; the one with rules has the priority rule of the player and
\* switches the statistics off.
TextOf(cfg) ==
  IF cfg.applications.games # DefaultClientId
  THEN [updateInterval |-> cfg.updateInterval,
        enableDetailedStats |-> TRUE, enableSystemInfo |-> TRUE,
        applications |-> << [type |-> <<"g", "a", "m", "e", "s">>, processNames |-> <<<<"s", "t", "e", "a", "m">>>>],
                            [type |-> <<"m", "u", "s", "i", "c">>, processNames |-> <<<<"s", "p", "o", "t", "i", "f", "y">>>>] >>,
        priorityApps |-> << >>, customApps |-> << >>]
  ELSE [updateInterval |-> cfg.updateInterval,
        enableDetailedStats |-> FALSE, enableSystemInfo |-> FALSE,
        applications |-> << [type |-> <<"g", "a", "m", "e", "s">>, processNames |-> << >>],
                            [type |-> <<"m", "u", "s", "i", "c">>, processNames |-> << >>] >>,
        priorityApps |-> <<SpotifyApp>>, customApps |-> << >>]

\* The foreground window behind a detection: the player (or the browser tab
\* that shows it) with a song in its title, a browser tab, the window of the
\* game client, what a failed query leaves, and the desktop, which has no
\* title.
WindowOf(det) ==
  Window(IF det.processName = "spotify" \/ det.activityType = "music"
         THEN SpotifyTitle(<<"S", "o", "n", "g">>, <<"A", "r", "t", "i", "s", "t">>)
         ELSE IF det.processName = "chrome" THEN <<"N", "e", "w", " ", "T", "a", "b", " ", "-", " ", "G", "o", "o", "g", "l", "e", " ", "C", "h", "r", "o", "m", "e">>
         ELSE IF det.processName = "steam" THEN <<"S", "t", "e", "a", "m">>
         ELSE IF det = UnknownSample THEN Acquire("failed").MainWindowTitle
         ELSE << >>,
         Spell[det.processName])

\* the load the metrics report while the manager runs (per cent)
SteadyLoad == 100

\* variant: a tracker whose catch branch returns an activity without text
PayloadBlank(det, r, cfg) ==
  IF det = Failed
  THEN [details |-> << >>, state |-> << >>, largeImageKey |-> <<"w", "i", "n", "d", "o", "w", "s">>,
        largeImageText |-> << >>, startTimestamp |-> r.activity.startTimestamp]
  ELSE Activity(Classify(OrUnknown(WindowOf(det).MainWindowTitle),
                         OrUnknown(WindowOf(det).ProcessName), cfg),
                FormatDuration((now - r.startTime) \div Ms(1)),
                r.dailyActivityStats[det.activityType], cfg, SteadyLoad, SteadyLoad,
                r.activity.startTimestamp)

\* The ActivityData getCurrentActivity returns for the window behind the
\* detection, r being the session after the poll.
Payload(det, r, cfg) ==
  IF det = Failed
  THEN [FallbackActivity EXCEPT !.startTimestamp = r.activity.startTimestamp]
  ELSE Activity(Classify(OrUnknown(WindowOf(det).MainWindowTitle),
                         OrUnknown(WindowOf(det).ProcessName), cfg),
                FormatDuration((now - r.startTime) \div Ms(1)),
                r.dailyActivityStats[det.activityType], cfg, SteadyLoad, SteadyLoad,
                r.activity.startTimestamp)

NoPublish == [client |-> -1, activity |-> [details |-> "-", startTimestamp |-> 0],
              outcome |-> "-"]

\* What a call of client.setActivity does: it returns a promise that is
\* fulfilled, it throws, or it returns a promise that is rejected.
PublishOutcomes == {"ok", "thrown", "rejected"}

\* no window has been sampled
NoWindow == [MainWindowTitle |-> << >>, ProcessName |-> << >>]

NoPoll == [det |-> Detection("-", "-", "-"), lastProcessName |-> "-", lastAppType |-> "-",
           startTime |-> 0, dailyActivityStats |-> [a \in ActivityTypes |-> 0]]

\* ------------------------------------------------------------ actions
\* the module has been loaded: the objects are constructed and app.start()
\* has called client.login()
Init ==
  /\ now = Epoch
  /\ config \in Configs
  /\ currentClientId = DefaultClientId
  /\ client = 0
  /\ clientConnected = FALSE
  /\ reconnectAttempts = 0
  /\ lastActivity = ""
  /\ lastProcessName = ""
  /\ lastAppType = ""
  /\ startTime = Epoch
  /\ dailyActivityStats = [a \in ActivityTypes |-> 0]
  /\ updateInterval = NULL
  /\ switchTimeout = NULL
  /\ lastSwitchTime = 0
  /\ isReconnecting = FALSE
  /\ timers = {}
  /\ clients = [c \in ClientRefs |->
                  IF c = 0 THEN [status |-> "connecting", id |-> DefaultClientId, closing |-> FALSE]
                  ELSE NoClient]
  /\ logins = {[client |-> 0, id |-> DefaultClientId, by |-> "start", age |-> 0]}
  /\ destroying = {}
  /\ switched = NoSwitch
  /\ published = NoPublish
  /\ polled = NoPoll
  /\ faults = 0
  /\ stopped = FALSE
  /\ exited = FALSE
  /\ activeWindow = NoWindow
  /\ classified = << >>

\* Time passes, up to the next timer that is due.  A connection that is
\* being closed has closed by then; a login may stay in flight.
Advance ==
  /\ ~exited
  /\ UNCHANGED sampling
  /\ timers # {}
  /\ \A t \in timers : t.due > now
  /\ \A l \in logins : l.age < MaxLatency
  /\ destroying = {}
  /\ \A c \in ClientRefs : ~clients[c].closing
  /\ LET next == CHOOSE d \in {t.due : t \in timers} : \A t \in timers : d <= t.due
     IN /\ next <= Horizon
        /\ now' = next
  /\ logins' = {[l EXCEPT !.age = @ + 1] : l \in logins}
  /\ switched' = NoSwitch
  /\ published' = NoPublish
  /\ polled' = NoPoll
  /\ UNCHANGED <<config, currentClientId, client, clientConnected, reconnectAttempts,
                 updateInterval, switchTimeout, lastSwitchTime, isReconnecting,
                 timers, clients, destroying, session, faults, stopped, exited>>

\* a login succeeds: the Client emits 'ready', then the awaiting code resumes
LoginResolve(l) ==
  /\ ~exited
  /\ UNCHANGED sampling
  /\ l \in logins
  /\ Live(clients[l.client])
  /\ LET M0 == [Cur EXCEPT !.logins = @ \ {l}, !.clients[l.client].status = "connected"]
         M1 == ReadyHandler(M0)
     IN Commit(IF l.by = "start"
               THEN [M1 EXCEPT !.currentClientId = DefaultClientId]
               ELSE [M1 EXCEPT !.currentClientId = l.id, !.lastSwitchTime = now])
  /\ UNCHANGED <<now, config, session, observed, faults, stopped, exited>>

\* A login fails: start() catches and reconnects, the switch callback logs.
\* The failure is one of the transport's, or follows from the connection
\* having failed or closed under another login of the same Client.
LoginReject(l) ==
  /\ ~exited
  /\ UNCHANGED sampling
  /\ l \in logins
  /\ Live(clients[l.client]) => faults < MaxFaults
  /\ faults' = IF Live(clients[l.client]) THEN faults + 1 ELSE faults
  /\ LET M0 == [Cur EXCEPT !.logins = @ \ {l},
                           !.clients[l.client].status =
                              IF @ = "connecting" THEN "idle" ELSE @]
     IN Commit(IF l.by = "start" THEN Reconnect(M0) ELSE M0)
  /\ UNCHANGED <<now, config, session, observed, stopped, exited>>

\* a Client with a connection emits 'error'
ErrorEvent(c) ==
  /\ ~exited
  /\ UNCHANGED sampling
  /\ Live(clients[c])
  /\ faults < MaxFaults
  /\ faults' = faults + 1
  /\ Commit(ErrorHandler(Cur))
  /\ UNCHANGED <<now, config, session, observed, stopped, exited>>

\* a Client whose connection was lost emits 'disconnected'
DisconnectedEvent(c) ==
  /\ ~exited
  /\ UNCHANGED sampling
  /\ clients[c].status = "connected"
  /\ faults < MaxFaults
  /\ faults' = faults + 1
  /\ Commit(DisconnectedHandler([Cur EXCEPT !.clients[c].status = "idle"]))
  /\ UNCHANGED <<now, config, session, observed, stopped, exited>>

\* A Client that was destroyed emits 'disconnected' when its connection has
\* closed.  A login still waiting on that connection is rejected after the
\* handler has run: the switch callback logs it, and the reconnect() of
\* start()'s catch returns at once, isReconnecting being set by then.
ClosedEvent(c) ==
  /\ ~exited
  /\ UNCHANGED sampling
  /\ clients[c].closing
  /\ LET M1 == DisconnectedHandler([Cur EXCEPT !.clients[c].closing = FALSE])
     IN Commit([M1 EXCEPT !.logins = {l \in @ : l.client # c}])
  /\ UNCHANGED <<now, config, session, observed, faults, stopped, exited>>

\* the reconnect timer fires
ReconnectFire(t) ==
  /\ ~exited
  /\ UNCHANGED sampling
  /\ t \in Due("reconnect")
  /\ Commit(Start([Cur EXCEPT !.timers = @ \ {t}, !.isReconnecting = FALSE]))
  /\ UNCHANGED <<now, config, session, observed, faults, stopped, exited>>

\* the debounce timer fires: up to await client.destroy(), or, with no
\* connection to destroy, up to await client.login()
SwitchFire(t) ==
  /\ ~exited
  /\ UNCHANGED sampling
  /\ t \in Due("switch")
  /\ LET M0 == [Cur EXCEPT !.timers = @ \ {t}] IN
     IF clientConnected
     THEN Commit([Destroy(M0, client) EXCEPT
                    !.destroying = @ \cup {[target |-> t.target, client |-> client]}])
     ELSE /\ CanCreate(M0)
          /\ Commit(SwitchConnect(M0, t.target))
  /\ UNCHANGED <<now, config, session, observed, faults, stopped, exited>>

\* client.destroy() has settled (resolved or thrown): the callback goes on
SwitchAfterDestroy(d) ==
  /\ ~exited
  /\ UNCHANGED sampling
  /\ d \in destroying
  /\ LET M0 == [Cur EXCEPT !.destroying = @ \ {d}, !.clientConnected = FALSE] IN
     /\ CanCreate(M0)
     /\ Commit(SwitchConnect(M0, d.target))
  /\ UNCHANGED <<now, config, session, observed, faults, stopped, exited>>

\* variant: a tick that publishes whatever the flag says
PublishAlways(det, r, out) ==
  [client |-> client, activity |-> Payload(det, r, TextOf(config)), outcome |-> out]

\* the publish of a tick: client.setActivity(activity) when the manager holds
\* itself connected, a log line otherwise
Publish(det, r, out) ==
  IF clientConnected
  THEN [client |-> client, activity |-> Payload(det, r, TextOf(config)), outcome |-> out]
  ELSE NoPublish

\* One tick of the poll interval.  A setActivity that throws is caught and
\* logged by the callback; the promise it returns is neither awaited nor
\* given a handler, so that its rejection is left to the runtime, which warns
\* or ends the process.
PollTick(t, det, out) ==
  /\ ~exited
  /\ UNCHANGED sampling
  /\ t \in Due("poll")
  /\ det \in config.detections \cup {Failed}
  /\ out \in PublishOutcomes
  /\ out # "ok" => (clientConnected /\ faults < MaxFaults)
  /\ faults' = IF out = "ok" THEN faults ELSE faults + 1
  /\ exited' \in (IF out = "rejected" THEN {FALSE, TRUE} ELSE {FALSE})
  /\ LET r == GetCurrentActivity(det)
         clientId == ClientIdFor(r.appType)
         M0 == [Cur EXCEPT !.timers = (@ \ {t}) \cup
                              {[t EXCEPT !.due = @ + Ms(config.updateInterval)]}]
     IN /\ startTime' = r.startTime
        /\ lastProcessName' = r.lastProcessName
        /\ lastAppType' = r.lastAppType
        /\ lastActivity' = r.lastActivity
        /\ dailyActivityStats' = r.dailyActivityStats
        /\ IF clientId # currentClientId
           THEN /\ Commit(SwitchClient(M0, clientId))
                /\ switched' = [result |-> SwitchResult(M0, clientId), target |-> clientId,
                                 replaced |-> Replaced(M0, clientId)]
           ELSE /\ Commit(M0)
                /\ switched' = NoSwitch
        /\ published' = Publish(det, r, out)
        /\ polled' = [det |-> det, lastProcessName |-> lastProcessName,
                      lastAppType |-> lastAppType, startTime |-> startTime,
                      dailyActivityStats |-> dailyActivityStats]
  /\ UNCHANGED <<now, config, stopped>>

\* stop()
Stop ==
  /\ ~exited
  /\ UNCHANGED sampling
  /\ ~stopped
  /\ LET M0 == [Cur EXCEPT
                  !.timers = ClearTimer(ClearTimer(@, "poll", updateInterval),
                                        "switch", switchTimeout),
                  !.updateInterval = NULL,
                  !.switchTimeout = NULL]
     IN Commit(Destroy(M0, client))
  /\ stopped' = TRUE
  /\ UNCHANGED <<now, config, session, observed, faults, exited>>

AllDetections == UNION {c.detections : c \in Configs} \cup {Failed}

Next ==
  \/ Advance
  \/ \E l \in logins : LoginResolve(l)
  \/ \E l \in logins : LoginReject(l)
  \/ \E c \in ClientRefs : ErrorEvent(c)
  \/ \E c \in ClientRefs : DisconnectedEvent(c)
  \/ \E c \in ClientRefs : ClosedEvent(c)
  \/ \E t \in timers : ReconnectFire(t)
  \/ \E t \in timers : SwitchFire(t)
  \/ \E d \in destroying : SwitchAfterDestroy(d)
  \/ \E t \in timers, det \in AllDetections, out \in PublishOutcomes : PollTick(t, det, out)

\* the program runs until it is killed
Spec == Init /\ [][Next]_vars

\* The time the first n connection attempts take when each fails at once.
RECURSIVE Elapsed(_)
Elapsed(n) == IF n = 0 THEN 0 ELSE Elapsed(n - 1) + BackoffTime(n)

\* The program at the instant its n-th reconnect timer has fired and start()
\* has called client.login() again, the n attempts before having failed at
\* once: the tracker was constructed Elapsed(n) earlier and has polled nothing.
InitBackoff ==
  /\ now = Epoch
  /\ config = ConfigIdentities(DefaultUpdateInterval)
  /\ currentClientId = DefaultClientId
  /\ client = 0
  /\ clientConnected = FALSE
  /\ reconnectAttempts \in 0 .. MaxAttempts
  /\ lastActivity = ""
  /\ lastProcessName = ""
  /\ lastAppType = ""
  /\ startTime = Epoch - Elapsed(reconnectAttempts)
  /\ dailyActivityStats = [a \in ActivityTypes |-> 0]
  /\ updateInterval = NULL
  /\ switchTimeout = NULL
  /\ lastSwitchTime = 0
  /\ isReconnecting = FALSE
  /\ timers = {}
  /\ clients = [c \in ClientRefs |->
                  IF c = 0 THEN [status |-> "connecting", id |-> DefaultClientId, closing |-> FALSE]
                  ELSE NoClient]
  /\ logins = {[client |-> 0, id |-> DefaultClientId, by |-> "start", age |-> 0]}
  /\ destroying = {}
  /\ switched = NoSwitch
  /\ published = NoPublish
  /\ polled = NoPoll
  /\ faults = 0
  /\ stopped = FALSE
  /\ exited = FALSE
  /\ activeWindow = NoWindow
  /\ classified = << >>

SpecBackoff == InitBackoff /\ [][Next]_vars

\* the program with a termination signal, taken after stop() has returned
NextStop ==
  \/ Next
  \/ Stop

SpecStop == Init /\ [][NextStop]_vars

\* ============================================================ classifier
\* One call of getCurrentActivity on the foreground window, as text: the
\* classification, the session update and the payload.

InitClassify ==
  /\ now = Epoch
  /\ config \in TextConfigs
  /\ currentClientId = DefaultClientId
  /\ client = 0
  /\ clientConnected = TRUE
  /\ reconnectAttempts = 0
  /\ lastActivity = << >>
  /\ lastProcessName = << >>
  /\ lastAppType = << >>
  /\ startTime = Epoch
  /\ dailyActivityStats = [a \in TypesOf(config) |-> 0]
  /\ updateInterval = NULL
  /\ switchTimeout = NULL
  /\ lastSwitchTime = 0
  /\ isReconnecting = FALSE
  /\ timers = {}
  /\ clients = [c \in ClientRefs |->
                  IF c = 0 THEN [status |-> "connected", id |-> DefaultClientId, closing |-> FALSE]
                  ELSE NoClient]
  /\ logins = {}
  /\ destroying = {}
  /\ switched = NoSwitch
  /\ published = NoPublish
  /\ polled = NoPoll
  /\ faults = 0
  /\ stopped = FALSE
  /\ exited = FALSE
  /\ activeWindow \in Windows
  /\ classified = << >>

\* what the try branch returns, with the classifier's details and state
Returned(processName, r, start, stats, cpuUsage, memoryUsage) ==
  [activity |-> Activity(r, FormatDuration((now - start) \div Ms(1)), stats[r.activityType],
                         config, cpuUsage, memoryUsage, start),
   appType |-> r.appType, processName |-> processName,
   details |-> r.details, state |-> r.state,
   activityType |-> r.activityType, largeImageKey |-> r.largeImageKey]

\* the session update of the try branch and its return
Tracked(processName, r, reset, cpuUsage, memoryUsage) ==
  /\ startTime' = (IF reset THEN now ELSE startTime)
  /\ lastProcessName' = (IF reset THEN processName ELSE lastProcessName)
  /\ lastAppType' = (IF reset THEN r.appType ELSE lastAppType)
  /\ lastActivity' = r.activityType
  /\ dailyActivityStats' = TrackActivityTime(dailyActivityStats, r.activityType)
  /\ classified' = Append(classified,
       Returned(processName, r, IF reset THEN now ELSE startTime,
                TrackActivityTime(dailyActivityStats, r.activityType),
                cpuUsage, memoryUsage))

Sampled(processName, r, cpuUsage, memoryUsage) ==
  Tracked(processName, r, Changed([processName |-> processName, appType |-> r.appType]),
          cpuUsage, memoryUsage)

\* getCurrentActivity() returns from its try branch
GetActivity(cpuUsage, memoryUsage) ==
  /\ Len(classified) < MaxCalls
  /\ classified # << >> => now > Epoch
  /\ Sampled(OrUnknown(activeWindow.ProcessName),
             Classify(OrUnknown(activeWindow.MainWindowTitle),
                      OrUnknown(activeWindow.ProcessName), config),
             cpuUsage, memoryUsage)
  /\ UNCHANGED <<now, config, conn, observed, faults, stopped, exited, activeWindow>>

\* getCurrentActivity() returns from its catch branch
GetActivityFails ==
  /\ Len(classified) < MaxCalls
  /\ classified # << >> => now > Epoch
  /\ classified' = Append(classified,
       [activity |-> FallbackActivity, appType |-> <<"d", "e", "f", "a", "u", "l", "t">>, processName |-> <<"e", "x", "p", "l", "o", "r", "e", "r">>,
        details |-> FallbackActivity.details, state |-> FallbackActivity.state,
        activityType |-> << >>, largeImageKey |-> FallbackActivity.largeImageKey])
  /\ UNCHANGED <<now, config, conn, session, observed, faults, stopped, exited, activeWindow>>

\* time passes between two polls of the same window
Wait(seconds) ==
  /\ now = Epoch
  /\ classified # << >>
  /\ now' = now + Ms(1000 * seconds)
  /\ UNCHANGED <<config, conn, session, observed, faults, stopped, exited, sampling>>

NextClassify ==
  \/ \E load \in Loads : GetActivity(load, load)
  \/ GetActivityFails
  \/ \E seconds \in Waits : Wait(seconds)

SpecClassify == InitClassify /\ [][NextClassify]_vars

\* ============================================================= durations
\* getCurrentActivity on one window, before and after a session of a given
\* length: the second call formats the duration of the session.

\* the lengths of a session in milliseconds: around the steps of the three
\* branches of formatDuration, and two strides through minutes and hours
Durations ==
  {0, 1, 999, 1000, 1001, 41999, 42000, 59999, 60000, 60001, 119999, 312000,
   312999, 3599999, 3600000, 3600001, 3659999, 3660000, 3780000, 7199999,
   7200000, 35999999, 36000000, 86399999, 86400000, 360000000}
    \cup {k * 7001 : k \in 1 .. MaxSamples}
    \cup {k * 970001 : k \in 1 .. MaxSamples}

InitDuration ==
  /\ InitClassify
  /\ config.priorityApps = <<SpotifyApp, SteamApp, ValorantApp>>
  /\ config.customApps = <<NotepadApp>>
  /\ activeWindow = Window(<<"a", "b">>, <<"m", "s", "p", "a", "i", "n", "t">>)

\* the session lasts: time passes between the first poll and the next
Elapse(milliseconds) ==
  /\ now = Epoch
  /\ classified # << >>
  /\ now' = now + Ms(milliseconds)
  /\ UNCHANGED <<config, conn, session, observed, faults, stopped, exited, sampling>>

NextDuration ==
  \/ \E load \in Loads : GetActivity(load, load)
  \/ \E milliseconds \in Durations : Elapse(milliseconds)

SpecDuration == InitDuration /\ [][NextDuration]_vars

\* ================================================ single-identity variant
\* The priority loop of the single-identity variant's getCurrentActivity,
\* which refines the titles of the distribution client; the multi-identity
\* variant has no such branch.

\* the last element of s.split(' - ')
RECURSIVE LastPart(_)
LastPart(s) ==
  IF Places(s, Dash) = {} THEN s
  ELSE LastPart(SubSeq(s, Least(Places(s, Dash)) + 3, Len(s)))

\* the first element of s.split(' - '), for an s that includes ' - '
FirstPart(s) == SubSeq(s, 1, Least(Places(s, Dash)) - 1)

RefineSteam(r, windowTitle) ==
  IF Includes(windowTitle, Dash)
  THEN IF Includes(ToLowerCase(LastPart(windowTitle)), <<"s", "t", "e", "a", "m">>)
       THEN [r EXCEPT !.state = <<"P", "l", "a", "y", "i", "n", "g", " ">> \o FirstPart(windowTitle),
                      !.details = <<"G", "a", "m", "i", "n", "g", " ", "o", "n", " ", "S", "t", "e", "a", "m">>]
       ELSE r
  ELSE IF Includes(ToLowerCase(windowTitle), <<"s", "t", "o", "r", "e">>)
  THEN [r EXCEPT !.state = <<"B", "r", "o", "w", "s", "i", "n", "g", " ", "t", "h", "e", " ", "S", "t", "o", "r", "e">>]
  ELSE IF Includes(ToLowerCase(windowTitle), <<"l", "i", "b", "r", "a", "r", "y">>)
  THEN [r EXCEPT !.state = <<"B", "r", "o", "w", "s", "i", "n", "g", " ", "L", "i", "b", "r", "a", "r", "y">>]
  ELSE IF Includes(ToLowerCase(windowTitle), <<"c", "o", "m", "m", "u", "n", "i", "t", "y">>)
  THEN [r EXCEPT !.state = <<"B", "r", "o", "w", "s", "i", "n", "g", " ", "C", "o", "m", "m", "u", "n", "i", "t", "y">>]
  ELSE IF ToLowerCase(windowTitle) = <<"s", "t", "e", "a", "m">>
  THEN [r EXCEPT !.state = <<"I", "n", " ", "S", "t", "e", "a", "m", " ", "C", "l", "i", "e", "n", "t">>]
  ELSE r

\* the special handling of the entry that matched; the branches for
\* Fortnite, Minecraft and the editor are for tokens that the rules of
\* SteamConfigs do not have
RefineBySingle(token, r, windowTitle) ==
  IF Includes(token, <<"s", "p", "o", "t", "i", "f", "y">>) THEN RefineSpotify(r, windowTitle)
  ELSE IF Includes(token, <<"d", "i", "s", "c", "o", "r", "d">>) THEN RefineDiscord(r, windowTitle)
  ELSE IF Includes(token, <<"s", "t", "e", "a", "m">>) THEN RefineSteam(r, windowTitle)
  ELSE IF Includes(token, <<"c", "h", "r", "o", "m", "e">>) THEN RefineChrome(r, windowTitle)
  ELSE r

\* the basic detection and the loop over priorityApps; p is the index of the
\* first matching entry
PriorityLoop(windowTitle, processName, cfg, p) ==
  IF p = 0 THEN Basic(windowTitle, processName)
  ELSE RefineBySingle(ToLowerCase(cfg.priorityApps[p].processName),
                      Applied(cfg.priorityApps[p], windowTitle), windowTitle)

\* the configurations with a rule for the distribution client
SteamConfigs ==
  {c \in TextConfigs : /\ \E i \in 1 .. Len(c.priorityApps) : c.priorityApps[i] = SteamApp
                       /\ c.customApps = <<NotepadApp>>
                       /\ ~c.enableDetailedStats}

InitSteam ==
  /\ InitClassify
  /\ config \in SteamConfigs
  /\ activeWindow \in SteamWindows

\* getCurrentActivity() has run its priority loop on the foreground window
MatchPriorityApp ==
  /\ Len(classified) < MaxCalls
  /\ FirstMatch(config.priorityApps, OrUnknown(activeWindow.ProcessName),
                OrUnknown(activeWindow.MainWindowTitle)) # 0
  /\ classified' = Append(classified,
       PriorityLoop(OrUnknown(activeWindow.MainWindowTitle),
                    OrUnknown(activeWindow.ProcessName), config,
                    FirstMatch(config.priorityApps, OrUnknown(activeWindow.ProcessName),
                               OrUnknown(activeWindow.MainWindowTitle))))
  /\ UNCHANGED <<now, config, conn, session, observed, faults, stopped, exited, activeWindow>>

\* the client shows another page: the title of its window changes
Retitle(title) ==
  /\ Len(classified) < MaxCalls
  /\ title # activeWindow.MainWindowTitle
  /\ activeWindow' = [activeWindow EXCEPT !.MainWindowTitle = title]
  /\ UNCHANGED <<now, config, conn, session, observed, faults, stopped, exited, classified>>

NextSteam ==
  \/ MatchPriorityApp
  \/ \E title \in SteamTitles : Retitle(title)

SpecSteam == InitSteam /\ [][NextSteam]_vars

\* ===================================================== session tracker
\* a poll of this instant that detected a window
Polled == polled # NoPoll /\ polled.det # Failed

\* no poll had detected a window before this instant's poll
FirstPoll == \A a \in ActivityTypes : polled.dailyActivityStats[a] = 0

C3_Original ==
  Polled =>
    \A a \in ActivityTypes :
      dailyActivityStats[a] =
        polled.dailyActivityStats[a]
          + (IF a = polled.det.activityType THEN config.updateInterval \div 1000 ELSE 0)

\* ================================================== connection manager
\* C4: the n-th retry since the last 'ready' is scheduled after exactly
\* min(15000 * 1.5^(n-1), 120000) ms, which is 15000, 22500, 33750, 50625 ms
\* for n = 1..4; the delay is at least that of every smaller n and at most
\* 120000 ms.
C4_Backoff ==
  \A t \in Pending("reconnect") :
    LET n == t.attempt
        table == <<15000, 22500, 33750, 50625>>
    IN /\ n >= 1
       /\ n <= 4 => t.delay = Ms(table[n])
       /\ n <= 8 => t.delay * 2^(n - 1) = Min(Ms(15000) * 3^(n - 1), Ms(120000) * 2^(n - 1))
       /\ n > 8 => t.delay = Ms(120000)
       /\ t.delay <= Ms(120000)
       /\ \A m \in 1 .. n : BackoffTime(m) <= t.delay

\* C4: the fourth retry in a row is pending, 50625 ms after its failure.
C4_Witness ==
  \E t \in Pending("reconnect") :
    t.attempt = 4 /\ t.delay = Ms(50625) /\ t.due = now + Ms(50625)

\* a retry timer or a debounce timer lies beyond the last instant of the run
CutOff == \E t \in timers : t.kind \in {"reconnect", "switch"} /\ t.due > Horizon

\* C5: reconnection never gives up.  A failed connect of start() schedules a
\* retry whatever the number of failures before it (more than 5 included);
\* the retry timer, when it fires, issues a connect; while not connected, a
\* connect is in flight or an event or timer that leads to one is pending;
\* and while the manager only waits for such a timer, time goes on up to
\* it, unless the timer lies beyond the last instant of the run.
C5_NeverGivesUp ==
  /\ [](~clientConnected =>
          \/ logins # {}
          \/ destroying # {}
          \/ Pending("reconnect") # {}
          \/ Pending("switch") # {}
          \/ \E c \in ClientRefs : clients[c].closing)
  /\ [][/\ \A l \in logins :
            (l.by = "start" /\ LoginReject(l)) =>
              \E t \in timers' : t.kind = "reconnect" /\ t.due >= now
        /\ \A t \in timers :
            ReconnectFire(t) =>
              \E k \in logins' :
                k.by = "start" /\ k.client = client /\ k.id = DefaultClientId /\ k.age = 0]_vars
  /\ []((/\ ~clientConnected
         /\ logins = {} /\ destroying = {}
         /\ \A c \in ClientRefs : ~clients[c].closing
         /\ \A t \in timers : t.due # now) => (ENABLED Advance \/ CutOff))

\* C5: after six failures in a row the sixth retry is pending.
C5_Witness ==
  /\ ~clientConnected
  /\ reconnectAttempts = 6
  /\ \E t \in Pending("reconnect") : t.attempt = 6

\* C6: every 'ready' sets clientConnected, sets reconnectAttempts to 0 and
\* starts the poll interval; and a retry scheduled while reconnectAttempts is
\* 0, as the first one after a connection is, is delayed by exactly 15000 ms.
C6_Ready ==
  [][/\ \A l \in logins :
          LoginResolve(l) =>
            /\ clientConnected'
            /\ reconnectAttempts' = 0
            /\ \E t \in timers' :
                 /\ {u \in timers' : u.kind = "poll"} = {t}
                 /\ t.id = updateInterval'
                 /\ t.due = now + Ms(config.updateInterval)
     /\ reconnectAttempts = 0 =>
          \A t \in timers' \ timers :
            t.kind = "reconnect" => t.attempt = 1 /\ t.delay = Ms(15000)]_vars

\* C6: after failures and then a connection, the first retry is pending with
\* a delay of 15000 ms.
C6_Witness ==
  /\ startTime < Epoch
  /\ faults = 1
  /\ \E t \in Pending("reconnect") : t.attempt = 1 /\ t.delay = Ms(15000)

C9_Original ==
  [][stopped' =>
       /\ timers' = {}
       /\ \A l \in logins' : \E k \in logins : k.client = l.client /\ k.id = l.id /\ k.by = l.by
       /\ published' \in {published, NoPublish}]_vars

\* C10 as stated: no two Clients with different identities have a connection
\* that is open or being opened.
C10_Original ==
  \A c, d \in ClientRefs :
    (Live(clients[c]) /\ Live(clients[d])) => clients[c].id = clients[d].id

\* C11 as stated: every failed connect, of start(), of the reconnect timer or
\* of an identity switch, leaves the manager reconnecting as an 'error' event
\* does: isReconnecting is set and a reconnect timer is pending, newly armed
\* with the next backoff delay unless one was pending already.
C11_Original ==
  [][\A l \in logins :
       LoginReject(l) =>
         /\ isReconnecting'
         /\ \E t \in timers' : t.kind = "reconnect"
         /\ ~isReconnecting =>
              /\ reconnectAttempts' = reconnectAttempts + 1
              /\ \E t \in timers' \ timers :
                   t.kind = "reconnect" /\ t.delay = BackoffTime(reconnectAttempts + 1)]_vars

\* a step that is a poll whose setActivity failed
PublishFailed ==
  polled = NoPoll /\ polled' # NoPoll /\ published'.outcome \in {"thrown", "rejected"}

\* C12 as stated: a publish that fails while connected changes neither the
\* connected flag, the identity, the attempt counter nor the reconnect
\* timers, leaves the poll timer armed, and the process goes on to the next
\* tick.
C12_Original ==
  [][PublishFailed =>
       /\ clientConnected' /\ clientConnected
       /\ currentClientId' = currentClientId
       /\ client' = client
       /\ reconnectAttempts' = reconnectAttempts
       /\ isReconnecting' = isReconnecting
       /\ {t \in timers' : t.kind = "reconnect"} = {t \in timers : t.kind = "reconnect"}
       /\ \E t \in timers' :
            /\ {u \in timers' : u.kind = "poll"} = {t}
            /\ t.id = updateInterval /\ updateInterval' = updateInterval
            /\ t.due = now + Ms(config.updateInterval)
       /\ ~exited']_vars

\* C13: at most one reconnect-backoff timer and at most one switch-debounce
\* timer are pending at any time, and a step that arms a timer of one of these
\* kinds leaves that timer as the only pending one of its kind; a reconnect
\* timer is pending exactly while isReconnecting is set.
C13_OneTimerPerKind ==
  [][\A k \in {"reconnect", "switch"} :
       /\ Cardinality({t \in timers' : t.kind = k}) <= 1
       /\ \A t \in timers' \ timers : t.kind = k => {u \in timers' : u.kind = k} = {t}
       /\ isReconnecting' <=> \E t \in timers' : t.kind = "reconnect"]_vars

\* C13: while a reconnect timer is pending, a switch request has replaced an
\* earlier pending one, so one timer of each kind is armed.
C13_Witness ==
  /\ isReconnecting
  /\ Cardinality(Pending("reconnect")) = 1
  /\ Cardinality(Pending("switch")) = 1
  /\ switched.result = "scheduled"
  /\ switched.replaced # "-"

\* Every poll so far has detected the same process, whose category has an
\* identity of its own, and the first of these polls is more than the
\* debounce time ago; the transport has produced no failure.
KeepsWanting ==
  /\ polled # NoPoll
  /\ polled.det # Failed
  /\ faults = 0
  /\ lastProcessName = polled.det.processName
  /\ ClientIdFor(lastAppType) # DefaultClientId
  /\ now - startTime > Ms(SwitchDebounce)
  /\ dailyActivityStats["app"] + dailyActivityStats["music"]
       = TrackIncrement * ((now - startTime) \div Ms(config.updateInterval) + 1)

\* C14: a switch that polls keep requiring is not lost, for any configured
\* poll interval: once every poll has required the same other identity for
\* longer than the debounce time and no connect has failed, the switch to it
\* has been completed or is under way (the debounce timer has fired).
C14_Original ==
  KeepsWanting =>
    \/ lastSwitchTime > 0
    \/ destroying # {}
    \/ \E l \in logins : l.by = "switch"

\* C15 as stated: when the debounce timer fires, the connection of the current
\* Client is torn down (it is no longer open or being opened afterwards);
\* whatever client.destroy() did, a connect to the target identity follows;
\* currentClientId and lastSwitchTime are set when that connect succeeds, are
\* left as they were when it fails, and lastSwitchTime changes at no other
\* step.
C15_Original ==
  [][/\ \A t \in timers :
          SwitchFire(t) =>
            /\ ~Live(clients'[client])
            /\ currentClientId' = currentClientId
            /\ lastSwitchTime' = lastSwitchTime
     /\ \A d \in destroying :
          SwitchAfterDestroy(d) =>
            /\ \E l \in logins' \ logins : l.by = "switch" /\ l.id = d.target /\ l.client = client'
            /\ currentClientId' = currentClientId
            /\ lastSwitchTime' = lastSwitchTime
     /\ \A l \in logins :
          l.by = "switch" =>
            /\ LoginResolve(l) => (currentClientId' = l.id /\ lastSwitchTime' = now)
            /\ LoginReject(l) =>
                 (currentClientId' = currentClientId /\ lastSwitchTime' = lastSwitchTime)
     /\ lastSwitchTime' # lastSwitchTime =>
          \E l \in logins : l.by = "switch" /\ LoginResolve(l)]_vars

\* C17: the payload a poll hands to the publisher, the fallback payload of a
\* failed detection included, carries as startTimestamp the session's
\* startTime after that poll's reset decision: the poll's time after a reset,
\* and otherwise the startTime of the poll before, so that polls with the
\* process and the appType unchanged publish one and the same startTimestamp.
C17_StartTimestamp ==
  (polled # NoPoll /\ published # NoPublish) =>
    LET differs == /\ polled.det # Failed
                   /\ \/ polled.det.processName # polled.lastProcessName
                      \/ polled.det.appType # polled.lastAppType
    IN /\ published.activity.startTimestamp = startTime
       /\ published.activity.startTimestamp = (IF differs THEN now ELSE polled.startTime)

\* C17: a fallback payload has been published in a session that began at an
\* earlier poll, and it carries the time of that poll.
C17_Witness ==
  /\ published # NoPublish
  /\ polled.det = Failed
  /\ Epoch < polled.startTime
  /\ polled.startTime < now
  /\ published.activity.startTimestamp = polled.startTime

\* ------------------------------------------------------------------ C16
\* the text fields of a payload
TextFields(activity) ==
  {activity[f] : f \in DOMAIN activity \cap
                   {"details", "state", "largeImageText", "smallImageText"}}

\* C16 (as stated): every text field of every payload getCurrentActivity()
\* hands to the publisher (details, state and the image texts) is at most 128
\* code units long, whatever the lengths of the window title, the process
\* name and the type and details of the matching rule.
C16_Original ==
  \A i \in DOMAIN classified :
    \A text \in TextFields(classified[i].activity) : Len(text) <= 128

\* ------------------------------------------------------------------ C19
\* the list with the rules at j and j + 1 swapped
Swapped(apps, j) ==
  [k \in 1 .. Len(apps) |->
     IF k = j THEN apps[j + 1] ELSE IF k = j + 1 THEN apps[j] ELSE apps[k]]

\* the priority rule at p, if there is one, supplied category and icon
SuppliedBy(result, apps, p) ==
  p # 0 => /\ result.activityType = apps[p].type
           /\ result.largeImageKey = apps[p].icon

\* swapping two neighbouring rules of which at most one matches the sample
\* leaves the classification as it is
SwapNeutral(windowTitle, processName, cfg) ==
  \A j \in 1 .. (Len(cfg.priorityApps) - 1) :
    ~ (/\ Matches(cfg.priorityApps[j].processName, processName, windowTitle)
       /\ Matches(cfg.priorityApps[j + 1].processName, processName, windowTitle))
      => Classify(windowTitle, processName,
                  [cfg EXCEPT !.priorityApps = Swapped(@, j)])
           = Classify(windowTitle, processName, cfg)

\* two returns of the try branch agree on what the classifier determined
SameResult(a, b) ==
  /\ a.appType = b.appType
  /\ a.activityType = b.activityType
  /\ a.largeImageKey = b.largeImageKey
  /\ a.details = b.details
  /\ a.state = b.state

\* the returns of the try branch among the calls made so far
Classified == {i \in DOMAIN classified : classified[i].activityType # << >>}

\* C19 (as stated): classification is a function of the window title, the
\* process name and the rule lists: the first priority rule in list order
\* whose token is a case-insensitive substring of the process name or of the
\* title supplies category and icon; swapping two rules of which only one
\* can match the sample changes nothing; and two calls with identical inputs
\* give identical results.
C19_Original ==
  \A i \in Classified :
    /\ SuppliedBy(classified[i], config.priorityApps,
                  FirstMatch(config.priorityApps, OrUnknown(activeWindow.ProcessName),
                             OrUnknown(activeWindow.MainWindowTitle)))
    /\ SwapNeutral(OrUnknown(activeWindow.MainWindowTitle),
                   OrUnknown(activeWindow.ProcessName), config)
    /\ \A k \in Classified : SameResult(classified[i], classified[k])

\* ------------------------------------------------------------------ C20
\* the first matching priority rule is one whose token contains 'spotify'
SpotifyMatched(apps, p) ==
  p # 0 /\ Includes(ToLowerCase(apps[p].processName), <<"s", "p", "o", "t", "i", "f", "y">>)

\* the tracks and artists of which the title is made
MadeOf(windowTitle) ==
  {s \in Tracks \X Artists : SpotifyTitle(s[1], s[2]) = windowTitle}

\* what the claim promises for the title made of track and artist
SongShown(result, track, artist) ==
  /\ result.state = track \o <<" ", "b", "y", " ">> \o artist
  /\ result.details = <<"L", "i", "s", "t", "e", "n", "i", "n", "g", " ", "t", "o", " ", "M", "u", "s", "i", "c">>

\* track and artist are what the pattern captures: both are non-empty and
\* free of surrounding blanks, the first ' - ' of the title is the one after
\* the track, and the first ' - Spotify' after it is the one after the artist
Plain(track, artist) ==
  /\ track # << >> /\ Trim(track) = track
  /\ artist # << >> /\ Trim(artist) = artist
  /\ Least(Places(SpotifyTitle(track, artist), Dash)) = Len(track) + 1
  /\ Least({e \in Places(SpotifyTitle(track, artist), <<" ", "-", " ", "S", "p", "o", "t", "i", "f", "y">>) :
              e >= Len(track) + 5}) = Len(track) + Len(artist) + 4

Agrees(det, cfg) ==
  /\ Classify(OrUnknown(WindowOf(det).MainWindowTitle),
              OrUnknown(WindowOf(det).ProcessName), cfg).appType = Spell[det.appType]
  /\ Classify(OrUnknown(WindowOf(det).MainWindowTitle),
              OrUnknown(WindowOf(det).ProcessName), cfg).activityType
       = Spell[det.activityType]

\* what a tick that detected det has published
Shown(det, activity, cfg) ==
  /\ activity.details # << >>
  /\ activity.state # << >>
  /\ IF det = Failed
     THEN activity.details = <<"O", "n", "l", "i", "n", "e">> /\ activity.state = <<"U", "s", "i", "n", "g", " ", "W", "i", "n", "d", "o", "w", "s">>
     ELSE /\ Agrees(det, cfg)
          /\ activity.details
               = Substring(Classify(OrUnknown(WindowOf(det).MainWindowTitle),
                                    OrUnknown(WindowOf(det).ProcessName), cfg).details,
                           0, 128)

\* a tick is pending that is due within one updateInterval
TickPending ==
  \E t \in timers : /\ t.kind = "poll"
                    /\ now <= t.due
                    /\ t.due <= now + Ms(config.updateInterval)

\* C18: while the process is alive and the manager holds itself connected,
\* every tick of the poll interval publishes a payload whose details and
\* state are not empty, the classified payload or 'Online' / 'Using Windows'
\* when the detection failed; a tick is pending within every updateInterval
\* and time does not pass a pending tick.
C18_EveryTickPublishes ==
  [][/\ \A t \in timers, det \in config.detections \cup {Failed}, out \in PublishOutcomes :
          (PollTick(t, det, out) /\ clientConnected)
            => /\ published' # NoPublish
               /\ published'.client = client
               /\ Shown(det, published'.activity, TextOf(config))
     /\ (clientConnected' /\ ~exited') => TickPending'
     /\ \A t \in timers : t.kind = "poll" => now' <= t.due]_vars

\* on a tick after the first, the manager has published the song the player
\* shows, with the statistics switched off
C18_Witness ==
  /\ clientConnected
  /\ published # NoPublish
  /\ polled # NoPoll
  /\ polled.det.activityType = "music"
  /\ polled.startTime < now
  /\ published.activity.details = <<"L", "i", "s", "t", "e", "n", "i", "n", "g", " ", "t", "o", " ", "M", "u", "s", "i", "c">>
  /\ published.activity.state = <<"S", "o", "n", "g", " ", "b", "y", " ", "A", "r", "t", "i", "s", "t">>

\* ------------------------------------------------------------------ C21
\* the first matching priority rule is one whose token contains tag
TokenMatched(tag) ==
  /\ FirstMatch(config.priorityApps, OrUnknown(activeWindow.ProcessName),
                OrUnknown(activeWindow.MainWindowTitle)) # 0
  /\ Includes(ToLowerCase(config.priorityApps[FirstMatch(config.priorityApps,
                OrUnknown(activeWindow.ProcessName),
                OrUnknown(activeWindow.MainWindowTitle))].processName), tag)

\* C21 (as stated): with a priority rule whose token is 'chrome' matched, for
\* every title '<page> - <site> - Google Chrome' the classifier's state is
\* 'On <site>', and for every title '<page> - Google Chrome' without a middle
\* segment it is 'On <page>', for every page and site name and whatever the
\* process name is.
C21_Original ==
  \A i \in Classified :
    TokenMatched(<<"c", "h", "r", "o", "m", "e">>)
      => /\ \A p \in Pages, s \in Sites :
              activeWindow.MainWindowTitle = ChromeTitle(p, s)
                => classified[i].state = <<"O", "n", " ">> \o s
         /\ \A p \in Pages :
              activeWindow.MainWindowTitle = p \o ChromeTail
                => classified[i].state = <<"O", "n", " ">> \o p

\* ------------------------------------------------------------------ C22
\* what follows the last '.' of a file name
ExtensionOf(file) ==
  SubSeq(file, Greatest({i \in 1 .. Len(file) : file[i] = "."}) + 1, Len(file))

\* the first matching priority rule is the editor's, whose token is 'code'
EditorMatched ==
  /\ FirstMatch(config.priorityApps, OrUnknown(activeWindow.ProcessName),
                OrUnknown(activeWindow.MainWindowTitle)) # 0
  /\ ToLowerCase(config.priorityApps[FirstMatch(config.priorityApps,
                   OrUnknown(activeWindow.ProcessName),
                   OrUnknown(activeWindow.MainWindowTitle))].processName) = <<"c", "o", "d", "e">>

\* C22 (as stated): with an editor priority rule matched, for every title of
\* a file ending in '.ts' the state contains 'Coding in TypeScript', and for
\* a file whose extension is absent from the extension table the state
\* contains 'Coding in <extension>' with the extension exactly as written in
\* the title.
C22_Original ==
  \A i \in Classified :
    EditorMatched
      => \A f \in Files, s \in EditorSuffixes :
           activeWindow.MainWindowTitle = f \o s
             => Includes(classified[i].state,
                         <<"C", "o", "d", "i", "n", "g", " ", "i", "n", " ">> \o Lookup(LangMap, ExtensionOf(f), ExtensionOf(f)))

\* ------------------------------------------------------------------ C23
\* the sample matches no priority rule, no custom rule and not the game the
\* classifier knows by itself
Unmatched ==
  /\ FirstMatch(config.priorityApps, OrUnknown(activeWindow.ProcessName),
                OrUnknown(activeWindow.MainWindowTitle)) = 0
  /\ FirstMatch(config.customApps, OrUnknown(activeWindow.ProcessName),
                OrUnknown(activeWindow.MainWindowTitle)) = 0
  /\ OrUnknown(activeWindow.ProcessName) # Valorant

\* details, state and category of the generic result for a sample
GenericText(result, windowTitle, processName) ==
  /\ result.details = <<"U", "s", "i", "n", "g", " ">> \o processName
  /\ result.state = (IF Len(windowTitle) > 2 THEN windowTitle ELSE <<"I", "d", "l", "e">>)
  /\ result.activityType = <<"a", "p", "p">>

\* C23 (as stated): for every sample that matches no priority rule, no custom
\* rule and no built-in entry, details is 'Using <processName>', state is the
\* window title (or 'Idle' when the title has at most 2 characters), the icon
\* key is 'default' and the category is 'app'.
C23_Original ==
  \A i \in Classified :
    Unmatched
      => /\ GenericText(classified[i], OrUnknown(activeWindow.MainWindowTitle),
                        OrUnknown(activeWindow.ProcessName))
         /\ classified[i].largeImageKey = <<"d", "e", "f", "a", "u", "l", "t">>

\* C23 (amended): for every sample that matches no priority rule and no
\* custom rule and whose process is not VALORANT-Win64-Shipping, details is
\* 'Using <processName>', state is the window title (or 'Idle' when the title
\* has at most 2 characters), the icon key is 'windows' and the category is
\* 'app'; an empty title or process name counts as 'Unknown'.
C23_GenericResult ==
  \A i \in Classified :
    Unmatched
      => /\ GenericText(classified[i], OrUnknown(activeWindow.MainWindowTitle),
                        OrUnknown(activeWindow.ProcessName))
         /\ classified[i].largeImageKey = <<"w", "i", "n", "d", "o", "w", "s">>

\* a window with a title of two characters has been classified by no rule
C23_Witness ==
  /\ 1 \in Classified
  /\ Unmatched
  /\ activeWindow = Window(<<"a", "b">>, <<"m", "s", "p", "a", "i", "n", "t">>)
  /\ classified[1].state = <<"I", "d", "l", "e">>
  /\ classified[1].details = <<"U", "s", "i", "n", "g", " ", "m", "s", "p", "a", "i", "n", "t">>

\* ------------------------------------------------------------------ C24
\* what getCurrentActivity makes of the window a query left without a window
Unresolved(outcome, cfg) ==
  Classify(OrUnknown(Acquire(outcome).MainWindowTitle),
           OrUnknown(Acquire(outcome).ProcessName), cfg)

CustomMatched ==
  /\ FirstMatch(config.priorityApps, OrUnknown(activeWindow.ProcessName),
                OrUnknown(activeWindow.MainWindowTitle)) = 0
  /\ FirstMatch(config.customApps, OrUnknown(activeWindow.ProcessName),
                OrUnknown(activeWindow.MainWindowTitle)) # 0

\* the custom rule that matches the sample first
CustomRule ==
  config.customApps[FirstMatch(config.customApps, OrUnknown(activeWindow.ProcessName),
                               OrUnknown(activeWindow.MainWindowTitle))]

\* the result carries the fields of the rule as configured and the title
Verbatim(result, app, windowTitle) ==
  /\ result.activityType = app.type
  /\ result.largeImageKey = app.icon
  /\ result.details = app.details
  /\ result.state = windowTitle

\* C25 (as stated): when no priority rule matches and a custom rule matches,
\* the result takes the rule's category, icon and details exactly as
\* configured and its state is the window title, for every process name and
\* title.
C25_Original ==
  \A i \in Classified :
    CustomMatched =>
      Verbatim(classified[i], CustomRule, OrUnknown(activeWindow.MainWindowTitle))

\* the same for every process other than the one of lines 1013-1025
C25_OtherProcesses ==
  \A i \in Classified :
    (CustomMatched /\ OrUnknown(activeWindow.ProcessName) # Valorant) =>
      Verbatim(classified[i], CustomRule, OrUnknown(activeWindow.MainWindowTitle))

\* ------------------------------------------------------------------ C26
\* the state the claim names for a title of the given segments
ChatState(parts) ==
  IF Len(parts) >= 3 THEN <<"I", "n", " ", "#">> \o parts[1] \o <<" ", "o", "n", " ">> \o parts[2]
  ELSE <<"C", "h", "a", "t", "t", "i", "n", "g", " ", "i", "n", " ">> \o parts[1]

\* the title carries the marker of direct messages
Marked(windowTitle) == Includes(ToLowerCase(windowTitle), <<"d", "i", "r", "e", "c", "t">>)

\* C26 (as stated): with a priority rule of the chat client matched, a title
\* of N >= 3 segments between ' - ' has the state 'In #<seg0> on <seg1>', one
\* of two segments 'Chatting in <seg0>', and every title that contains the
\* marker of direct messages has the state 'In Direct Messages'.
C26_Original ==
  \A i \in Classified :
    TokenMatched(<<"d", "i", "s", "c", "o", "r", "d">>) =>
      \A s \in ChatSegments :
        activeWindow.MainWindowTitle = ChatTitle(s) =>
          /\ Len(s) >= 2 => classified[i].state = ChatState(s)
          /\ Marked(ChatTitle(s)) => classified[i].state = <<"I", "n", " ", "D", "i", "r", "e", "c", "t", " ", "M", "e", "s", "s", "a", "g", "e", "s">>

\* C26 (amended): with a priority rule of the chat client matched and a
\* foreground process other than VALORANT-Win64-Shipping, a title of N >= 3
\* segments has the state 'In #<seg0> on <seg1>' and one of two segments
\* 'Chatting in <seg0>', marker or not; a title without ' - ' has the state
\* 'In Direct Messages' when it contains the marker and is the state itself
\* otherwise.
C26_SeparatorFirst ==
  \A i \in Classified :
    (TokenMatched(<<"d", "i", "s", "c", "o", "r", "d">>) /\ activeWindow.ProcessName # Valorant) =>
      \A s \in ChatSegments :
        activeWindow.MainWindowTitle = ChatTitle(s) =>
          classified[i].state =
            IF Len(s) >= 2 THEN ChatState(s)
            ELSE IF Marked(ChatTitle(s)) THEN <<"I", "n", " ", "D", "i", "r", "e", "c", "t", " ", "M", "e", "s", "s", "a", "g", "e", "s">>
            ELSE ChatTitle(s)

\* a title with the marker before a separator has been classified: the
\* marker is taken for the name of a conversation
C26_Witness ==
  /\ 1 \in Classified
  /\ TokenMatched(<<"d", "i", "s", "c", "o", "r", "d">>)
  /\ activeWindow = Window(<<"D", "i", "r", "e", "c", "t", " ", "M", "e", "s", "s", "a", "g", "e", "s", " ", "-", " ", "D", "i", "s", "c", "o", "r", "d">>, <<"D", "i", "s", "c", "o", "r", "d">>)
  /\ classified[1].state = <<"C", "h", "a", "t", "t", "i", "n", "g", " ", "i", "n", " ", "D", "i", "r", "e", "c", "t", " ", "M", "e", "s", "s", "a", "g", "e", "s">>

\* ------------------------------------------------------------------ C27
\* the first matching priority rule is one of the distribution client
SteamMatched ==
  /\ TokenMatched(<<"s", "t", "e", "a", "m">>)
  /\ ~TokenMatched(<<"s", "p", "o", "t", "i", "f", "y">>)
  /\ ~TokenMatched(<<"d", "i", "s", "c", "o", "r", "d">>)

\* C27 (as stated): with a priority rule of the distribution client matched,
\* a title that contains 'store', 'library' or 'community', or is the bare
\* name of the client, has the fixed state of that keyword, and only a title
\* with none of them is tried against '<game> - <AppName>' and then has the
\* state 'Playing <game>'.
C27_Original ==
  [][(MatchPriorityApp /\ SteamMatched) =>
       classified'[Len(classified')].state =
         IF Includes(ToLowerCase(activeWindow.MainWindowTitle), <<"s", "t", "o", "r", "e">>)
         THEN <<"B", "r", "o", "w", "s", "i", "n", "g", " ", "t", "h", "e", " ", "S", "t", "o", "r", "e">>
         ELSE IF Includes(ToLowerCase(activeWindow.MainWindowTitle), <<"l", "i", "b", "r", "a", "r", "y">>)
         THEN <<"B", "r", "o", "w", "s", "i", "n", "g", " ", "L", "i", "b", "r", "a", "r", "y">>
         ELSE IF Includes(ToLowerCase(activeWindow.MainWindowTitle), <<"c", "o", "m", "m", "u", "n", "i", "t", "y">>)
         THEN <<"B", "r", "o", "w", "s", "i", "n", "g", " ", "C", "o", "m", "m", "u", "n", "i", "t", "y">>
         ELSE IF ToLowerCase(activeWindow.MainWindowTitle) = <<"s", "t", "e", "a", "m">>
         THEN <<"I", "n", " ", "S", "t", "e", "a", "m", " ", "C", "l", "i", "e", "n", "t">>
         ELSE IF /\ Includes(activeWindow.MainWindowTitle, Dash)
                 /\ Includes(ToLowerCase(LastPart(activeWindow.MainWindowTitle)), <<"s", "t", "e", "a", "m">>)
         THEN <<"P", "l", "a", "y", "i", "n", "g", " ">> \o FirstPart(activeWindow.MainWindowTitle)
         ELSE activeWindow.MainWindowTitle
    ]_vars

\* ------------------------------------------------------------------ C28
\* the milliseconds the session has lasted when call i was made
SessionOf(i) == IF i = 1 THEN 0 ELSE (now - Epoch) \div Ms(1)

\* C28: for every count of milliseconds ms >= 0, with s = floor(ms / 1000),
\* m = floor(s / 60) and h = floor(m / 60), the formatted duration is
\* '<h>h <m mod 60>m' when h > 0, otherwise '<m>m <s mod 60>s' when m > 0,
\* otherwise '<s>s'; 3780000 gives '1h 3m', 312000 gives '5m 12s' and 42000
\* gives '42s'.
C28_FormatDuration ==
  \A i \in Classified :
    /\ classified[i].activity.largeImageText =
         <<"A", "p", "p", " ", "f", "o", "r", " ">> \o
           (IF ((SessionOf(i) \div 1000) \div 60) \div 60 > 0
            THEN NumberText(((SessionOf(i) \div 1000) \div 60) \div 60) \o <<"h", " ">>
                   \o NumberText(((SessionOf(i) \div 1000) \div 60) % 60) \o <<"m">>
            ELSE IF (SessionOf(i) \div 1000) \div 60 > 0
            THEN NumberText((SessionOf(i) \div 1000) \div 60) \o <<"m", " ">>
                   \o NumberText((SessionOf(i) \div 1000) % 60) \o <<"s">>
            ELSE NumberText(SessionOf(i) \div 1000) \o <<"s">>)
    /\ SessionOf(i) = 3780000 => classified[i].activity.largeImageText = <<"A", "p", "p", " ", "f", "o", "r", " ", "1", "h", " ", "3", "m">>
    /\ SessionOf(i) = 312000 => classified[i].activity.largeImageText = <<"A", "p", "p", " ", "f", "o", "r", " ", "5", "m", " ", "1", "2", "s">>
    /\ SessionOf(i) = 42000 => classified[i].activity.largeImageText = <<"A", "p", "p", " ", "f", "o", "r", " ", "4", "2", "s">>
    /\ SessionOf(i) = 3599999 => classified[i].activity.largeImageText = <<"A", "p", "p", " ", "f", "o", "r", " ", "5", "9", "m", " ", "5", "9", "s">>
    /\ SessionOf(i) = 360000000 => classified[i].activity.largeImageText = <<"A", "p", "p", " ", "f", "o", "r", " ", "1", "0", "0", "h", " ", "0", "m">>

\* a session of 3780000 ms has been formatted as '1h 3m'
C28_Witness ==
  /\ 2 \in Classified
  /\ SessionOf(2) = 3780000
  /\ classified[2].activity.largeImageText = <<"A", "p", "p", " ", "f", "o", "r", " ", "1", "h", " ", "3", "m">>

\* ------------------------------------------------------------------ C29
\* the identity category that config.applications has for the sample,
\* 'default' if it has none
Configured ==
  AppTypeOf(config.applications, OrUnknown(activeWindow.ProcessName),
            OrUnknown(activeWindow.MainWindowTitle))

\* a configured identity category is the one returned; when none is
\* configured, an activity type that activityToAppType lists gives its category
Resolved(result, configured) ==
  /\ configured # <<"d", "e", "f", "a", "u", "l", "t">> => result.appType = configured
  /\ (configured = <<"d", "e", "f", "a", "u", "l", "t">> /\ Lookup(ActivityToAppType, result.activityType, << >>) # << >>)
       => result.appType = Lookup(ActivityToAppType, result.activityType, << >>)

\* C29 (as stated): the mapping from activity type to identity category
\* changes the identity category only when no configured identity category
\* matched the sample; a configured category that matched is the one returned
\* for the selection of the identity, also when the activity type of the
\* matched rule maps to another one.
C29_Original ==
  \A i \in Classified : Resolved(classified[i], Configured)

\* the same for every process other than the one of lines 1013-1025
C29_OtherProcesses ==
  \A i \in Classified :
    OrUnknown(activeWindow.ProcessName) # Valorant => Resolved(classified[i], Configured)

\* a configured category has been kept although the matched rule's activity
\* type maps to another one
C29_ConfiguredKept ==
  /\ 1 \in Classified
  /\ Configured = <<"g", "a", "m", "e", "s">>
  /\ classified[1].activityType = <<"m", "u", "s", "i", "c">>
  /\ classified[1].appType = <<"g", "a", "m", "e", "s">>

\* ------------------------------------------------------------------ C30
\* C30 (as stated): whenever the manager holds itself connected,
\* currentClientId is the identity that the connection of the Client it holds
\* was opened with, whatever the order of switch timers, reconnect timers and
\* the events of the Clients, those of a replaced Client included.
C30_Original ==
  clientConnected => clients[client].id = currentClientId

\* ------------------------------------------------------------------ C31
\* the reconnect timers of a set of timers
ReconnectTimers(ts) == {t \in ts : t.kind = "reconnect"}

\* C31 (as stated): the 'disconnected' event emitted by the connection that a
\* switch tears down schedules no reconnect timer, does not increment the
\* reconnect-attempt counter and does not mark a connection as disconnected.
C31_Original ==
  [][\A c \in ClientRefs :
       ClosedEvent(c) =>
         /\ ReconnectTimers(timers') = ReconnectTimers(timers)
         /\ reconnectAttempts' = reconnectAttempts
         /\ clientConnected' = clientConnected]_vars

\* ------------------------------------------------------------------ C32
\* C32 (as stated): any two completed identity switches are at least 15
\* seconds apart: when the connect of a switch succeeds, the switch completed
\* before it, if any, lies at least 15000 ms back.
C32_Original ==
  [][\A l \in logins :
       (LoginResolve(l) /\ l.by = "switch" /\ lastSwitchTime # 0) =>
         now - lastSwitchTime >= Ms(SwitchRateLimit)]_vars

\* ------------------------------------------------------------------ C33
\* the identity that a poll of the detection det requires
Required(det) == ClientIdFor(GetCurrentActivity(det).appType)

\* C33 (as stated): after every poll a pending switch is a switch to the
\* identity that this poll requires, so that the debounce timer connects to
\* the identity required by the most recent poll.
C33_Original ==
  [][\A t \in timers, det \in AllDetections, out \in PublishOutcomes :
       PollTick(t, det, out) =>
         \A s \in timers' : s.kind = "switch" => s.target = Required(det)]_vars

\* ------------------------------------------------------------------ C34
\* C34: every login that start() issues, the first and each one re-issued by
\* the reconnect timer, is a login of the Client held with the default
\* identity; a connection it opens is opened with the default identity; when
\* it succeeds the default identity is recorded as current, whichever
\* identity was recorded before.
C34_StartUsesDefault ==
  [][/\ \A l \in logins \cup logins' : l.by = "start" => l.id = DefaultClientId
     /\ \A t \in timers :
          ReconnectFire(t) =>
            /\ logins' \ logins \subseteq
                 {[client |-> client, id |-> DefaultClientId, by |-> "start", age |-> 0]}
            /\ \E l \in logins' : l.by = "start" /\ l.client = client
            /\ ~Live(clients[client]) =>
                 clients'[client] = [status |-> "connecting", id |-> DefaultClientId,
                                     closing |-> clients[client].closing]
            /\ currentClientId' = currentClientId
     /\ \A l \in logins :
          (LoginResolve(l) /\ l.by = "start") =>
            /\ currentClientId' = DefaultClientId
            /\ lastSwitchTime' = lastSwitchTime]_vars

\* the reconnect timer has fired after a failure of a connection that a switch
\* had made with another identity: start()'s login is in flight
C34_Witness ==
  /\ currentClientId # DefaultClientId
  /\ lastSwitchTime # 0
  /\ ~clientConnected
  /\ \E l \in logins : l.by = "start" /\ l.client = client /\ clients[client].id = DefaultClientId

\* ------------------------------------------------------------------ C35
\* C35: at any time at most one poll interval timer is pending, and it is the
\* one whose handle the manager holds; after a 'ready' event and after a tick
\* the pending timer is due one whole interval later, so that two ticks are
\* never less than one interval apart.
C35_OnePollTimer ==
  [][/\ Cardinality(Pending("poll")') <= 1
     /\ \A t \in Pending("poll")' : t.id = updateInterval'
     /\ ((\E l \in logins : LoginResolve(l))
          \/ (\E t \in timers, det \in AllDetections, out \in PublishOutcomes :
                PollTick(t, det, out))) =>
          \E t \in timers' :
            Pending("poll")' = {t} /\ t.due = now + Ms(config.updateInterval)]_vars

\* a second 'ready' event, that of a completed switch, has restarted the
\* interval: the one poll timer no longer runs in the phase of the first
C35_Witness ==
  /\ lastSwitchTime # 0
  /\ clientConnected
  /\ \E t \in timers :
       /\ Pending("poll") = {t}
       /\ t.id = updateInterval
       /\ (t.due - Epoch) % Ms(config.updateInterval) # 0

\* ------------------------------------------------------------------ C36
\* C36: a tick publishes exactly when the manager holds itself connected.  An
\* 'error' or 'disconnected' event and the teardown of a switch clear that
\* mark, only a 'ready' event sets it, and a tick that finds it cleared
\* publishes nothing, yet updates the session as any other tick does and
\* leaves the next tick pending.
C36_PublishOnlyConnected ==
  [][/\ \A t \in timers, det \in AllDetections, out \in PublishOutcomes :
          PollTick(t, det, out) =>
            /\ (published' # NoPublish) <=> clientConnected
            /\ ~clientConnected =>
                 /\ published' = NoPublish
                 /\ TickPending'
                 /\ det # Failed =>
                      /\ lastProcessName' = det.processName
                      /\ lastAppType' = det.appType
                      /\ lastActivity' = det.activityType
                      /\ startTime' = IF Changed(det) THEN now ELSE startTime
                      /\ dailyActivityStats' =
                           [dailyActivityStats EXCEPT ![det.activityType] = @ + TrackIncrement]
     /\ \A c \in ClientRefs :
          (ErrorEvent(c) \/ DisconnectedEvent(c) \/ ClosedEvent(c)) => ~clientConnected'
     /\ \A d \in destroying : SwitchAfterDestroy(d) => ~clientConnected'
     /\ (~clientConnected /\ clientConnected') => \E l \in logins : LoginResolve(l)]_vars

\* a tick has run while the mark was cleared: nothing was published and the
\* session has moved on to the process detected
C36_Witness ==
  /\ Polled
  /\ polled.det # Failed
  /\ ~clientConnected
  /\ published = NoPublish
  /\ polled.lastProcessName # polled.det.processName
  /\ lastProcessName = polled.det.processName
  /\ startTime = now

\* ------------------------------------------------------------------ C37
\* C37: an 'error' or 'disconnected' event leaves the recorded identity, the
\* last switch time, the pending switch timer, the poll timer, the Client held
\* and the whole session unchanged; of the timers it can only add a reconnect
\* timer.
C37_EventFrame ==
  [][\A c \in ClientRefs :
       (ErrorEvent(c) \/ DisconnectedEvent(c) \/ ClosedEvent(c)) =>
         /\ UNCHANGED <<currentClientId, lastSwitchTime, switchTimeout, updateInterval,
                        client, session>>
         /\ Pending("switch")' = Pending("switch")
         /\ Pending("poll")' = Pending("poll")
         /\ timers \subseteq timers'
         /\ \A t \in timers' \ timers : t.kind = "reconnect"]_vars

\* an 'error' or 'disconnected' event has just armed the reconnect timer while
\* a switch was pending, the interval was running and a session was open
C37_Witness ==
  /\ faults > 0
  /\ ~clientConnected
  /\ isReconnecting
  /\ reconnectAttempts = 1
  /\ \E t \in Pending("reconnect") : t.due = now + t.delay
  /\ \E s \in Pending("switch") : s.due < now + s.delay
  /\ Pending("poll") # {}
  /\ lastProcessName # ""
  /\ currentClientId = DefaultClientId

\* ------------------------------------------------------------------ C38
\* C38: a poll whose detection raises keeps the whole session (start of the
\* activity, last process, last category, last activity type and every daily
\* total), requires the default identity, and what it publishes is the
\* generic payload: details 'Online', state 'Using Windows', stamped with the
\* start of the session that was open.
C38_FailedPollKeepsSession ==
  [][\A t \in timers, out \in PublishOutcomes :
       PollTick(t, Failed, out) =>
         /\ UNCHANGED session
         /\ Required(Failed) = DefaultClientId
         /\ switched' = IF currentClientId = DefaultClientId THEN NoSwitch
                        ELSE [result |-> switched'.result, target |-> DefaultClientId,
                              replaced |-> switched'.replaced]
         /\ clientConnected =>
              /\ published'.activity.details = <<"O", "n", "l", "i", "n", "e">>
              /\ published'.activity.state = <<"U", "s", "i", "n", "g", " ", "W", "i", "n", "d", "o", "w", "s">>
              /\ published'.activity.startTimestamp = startTime]_vars

\* a poll has failed while a session with accumulated time was open, and the
\* generic payload was published
C38_Witness ==
  /\ polled # NoPoll
  /\ polled.det = Failed
  /\ lastProcessName = "spotify"
  /\ lastAppType = "music"
  /\ startTime > Epoch
  /\ startTime < now
  /\ \E a \in ActivityTypes : dailyActivityStats[a] > 0
  /\ published # NoPublish
  /\ published.activity.details = <<"O", "n", "l", "i", "n", "e">>

====
